---- MODULE Spec2Model ----
(***************************************************************************)
(* Model of the Intelligent Document Review application                     *)
(* (src/idp_app/app_main.py): the result normalizer (source-string parser,   *)
(* region extractor, evidence gatherer, resolver, field value resolver,      *)
(* classifier interpreter, projection) and the Run handler of the session.   *)
(*                                                                           *)
(* Representation.  A Python value is a tagged record [t, v]:                *)
(*   none, bool, num, str, list, dict.                                       *)
(* A str is the sequence of its characters; a num is its value in            *)
(* hundredths (1.5 is 150), so that int(float(..)) truncation is visible;    *)
(* a dict is the sequence of its <<key, value>> items in insertion order.    *)
(***************************************************************************)
EXTENDS Integers, Sequences, FiniteSets, TLC

VARIABLES
    phase,      \* harness of the pure functions: "ready" (not called) / "done"
    given,      \* how the argument was put together (read by the properties only)
    arg,        \* the argument of the function under check
    ret,        \* what the call returned (or the exception that left it)
    images,     \* the image objects in memory, by reference (1, 2, ...)
    session_state,  \* st.session_state: the values kept between script runs
    run,        \* the script run that handles a click on Run: its position
                \* (pc), its locals, how it ended, the remote calls it made
    before,     \* st.session_state as it was when the current Run began
    viewer,     \* the Document Viewer: page_num of st.session_state and what was shown
    prov        \* prereq.py: the resources of the service and the position of main

vars == <<phase, given, arg, ret, images, session_state, run, before, viewer, prov>>

(***************************************************************************)
(* Bounds of the input spaces.                                              *)
(***************************************************************************)
MaxCoord == 2       \* coordinates of generated polygons range over 0..MaxCoord
MaxExtra == 1       \* numeric tokens that may follow the 8 coordinates
MaxItems == 2       \* raw evidence items handed to the resolver
MaxFields == 2      \* entries of a generated fields map
MaxDepth == 2       \* mappings wrapped around a classification candidate

(***************************************************************************)
(* Python values.                                                           *)
(***************************************************************************)
None      == [t |-> "none", v |-> 0]
Bool(b)   == [t |-> "bool", v |-> b]
Num(h)    == [t |-> "num",  v |-> h]            \* h in hundredths
N(k)      == Num(100 * k)                        \* the integer k
Str(cs)   == [t |-> "str",  v |-> cs]
List(xs)  == [t |-> "list", v |-> xs]
Dict(kvs) == [t |-> "dict", v |-> kvs]
Raise(e)  == [t |-> "raise", v |-> e]            \* an exception leaving a call

IsRaise(x) == x.t = "raise"

\* bool(x): Python truthiness.
Truthy(x) ==
    CASE x.t = "none" -> FALSE
      [] x.t = "bool" -> x.v
      [] x.t = "num"  -> x.v # 0
      [] x.t \in {"str", "list", "dict"} -> Len(x.v) > 0
      [] x.t = "region" -> TRUE
      [] OTHER -> TRUE

\* a or b
Or(a, b) == IF Truthy(a) THEN a ELSE b

\* k in d
Has(d, k) == \E i \in 1..Len(d.v) : d.v[i][1] = k

\* d[k]
Item(d, k) == d.v[CHOOSE i \in 1..Len(d.v) : d.v[i][1] = k][2]

\* d.get(k)
Get(d, k) == IF Has(d, k) THEN Item(d, k) ELSE None

\* list(d.values())
Values(d) == [i \in 1..Len(d.v) |-> d.v[i][2]]

(***************************************************************************)
(* str methods and float()/int() on character sequences.                    *)
(***************************************************************************)
RECURSIVE lstrip(_)
lstrip(s) == IF s # <<>> /\ s[1] = " " THEN lstrip(Tail(s)) ELSE s

RECURSIVE rstrip(_)
rstrip(s) ==
    IF s # <<>> /\ s[Len(s)] = " " THEN rstrip(SubSeq(s, 1, Len(s) - 1)) ELSE s

strip(s) == rstrip(lstrip(s))

\* s.find(c): 0-based index of the first c, -1 when there is none.
find(s, c) ==
    IF \E i \in 1..Len(s) : s[i] = c
    THEN (CHOOSE i \in 1..Len(s) : s[i] = c /\ \A j \in 1..(i - 1) : s[j] # c) - 1
    ELSE -1

endswith(s, c) == Len(s) > 0 /\ s[Len(s)] = c

RECURSIVE split(_, _)
split(s, c) ==
    LET f == find(s, c)
    IN  IF f = -1 THEN <<s>>
        ELSE <<SubSeq(s, 1, f)>> \o split(SubSeq(s, f + 2, Len(s)), c)

Digits == {"0", "1", "2", "3", "4", "5", "6", "7", "8", "9"}

DigitVal(c) ==
    CASE c = "0" -> 0 [] c = "1" -> 1 [] c = "2" -> 2 [] c = "3" -> 3
      [] c = "4" -> 4 [] c = "5" -> 5 [] c = "6" -> 6 [] c = "7" -> 7
      [] c = "8" -> 8 [] c = "9" -> 9

RECURSIVE DigitsVal(_)
DigitsVal(ds) ==
    IF ds = <<>> THEN 0
    ELSE 10 * DigitsVal(SubSeq(ds, 1, Len(ds) - 1)) + DigitVal(ds[Len(ds)])

AllDigits(ds) == \A i \in 1..Len(ds) : ds[i] \in Digits

\* The pieces of a decimal literal [-]digits[.digits] (surrounding blanks are
\* accepted by float() and int()).
Unsigned(tok) ==
    LET s == strip(tok) IN IF s # <<>> /\ s[1] = "-" THEN Tail(s) ELSE s
IsNegative(tok) == LET s == strip(tok) IN s # <<>> /\ s[1] = "-"
IntPart(tok) ==
    LET b == Unsigned(tok) d == find(b, ".")
    IN  IF d = -1 THEN b ELSE SubSeq(b, 1, d)
FracPart(tok) ==
    LET b == Unsigned(tok) d == find(b, ".")
    IN  IF d = -1 THEN <<>> ELSE SubSeq(b, d + 2, Len(b))

\* float(tok) does not raise ValueError.
is_float(tok) ==
    /\ Len(IntPart(tok)) + Len(FracPart(tok)) > 0
    /\ AllDigits(IntPart(tok))
    /\ AllDigits(FracPart(tok))

\* float(tok), in hundredths (digits past the second decimal are below the
\* resolution of the representation).
float(tok) ==
    LET fp  == FracPart(tok)
        fp2 == SubSeq(fp \o <<"0", "0">>, 1, 2)
        mag == 100 * DigitsVal(IntPart(tok)) + DigitsVal(fp2)
    IN  IF IsNegative(tok) THEN 0 - mag ELSE mag

\* int(x) of a float x: truncation toward zero.
int(h) == IF h >= 0 THEN h \div 100 ELSE 0 - ((0 - h) \div 100)

(***************************************************************************)
(* Regions.  A region is the dict {kind, pageNumber, polygon, bbox}; a key  *)
(* the code leaves out reads as None, as dict.get gives it.  pageNumber is  *)
(* a Python int, bbox a tuple of four numbers in hundredths.                *)
(***************************************************************************)
Region(kind, pageNumber, polygon, bbox) ==
    [t |-> "region",
     v |-> [kind |-> kind, pageNumber |-> pageNumber, polygon |-> polygon,
            bbox |-> bbox]]

SetMin(S) == CHOOSE x \in S : \A y \in S : x <= y
SetMax(S) == CHOOSE x \in S : \A y \in S : x >= y

\* polygon[0::2] and polygon[1::2] of a sequence of numbers.
_coerce_polygon_to_bbox(polygon) ==
    LET xs == {polygon[i] : i \in {j \in 1..Len(polygon) : j % 2 = 1}}
        ys == {polygon[i] : i \in {j \in 1..Len(polygon) : j % 2 = 0}}
    IN  <<SetMin(xs), SetMin(ys), SetMax(xs), SetMax(ys)>>

NonEmptyTok(p) == p # <<>>

\* inner.split(","), each part stripped, the empty ones dropped.
Parts(inner) ==
    LET raw == split(inner, ",")
    IN  SelectSeq([i \in 1..Len(raw) |-> strip(raw[i])], NonEmptyTok)

\* The body of the try block (lines 85-89) followed by lines 93-99: every part
\* after the page is converted before the first eight are kept.
parse_try(kind, parts) ==
    IF ~is_float(parts[1]) THEN Raise("ValueError")
    ELSE IF \E i \in 2..Len(parts) : ~is_float(parts[i]) THEN Raise("ValueError")
    ELSE IF Len(parts) - 1 < 8 THEN None
    ELSE LET coords == [i \in 1..8 |-> float(parts[i + 1])]
         IN  Region(Str(<<kind>>), int(float(parts[1])),
                    List([i \in 1..8 |-> Num(coords[i])]),
                    _coerce_polygon_to_bbox(coords))

\* parse_cu_source_string with the except clause left out.
parse_cu_source_string_NoExcept(source) ==
    IF ~Truthy(source) \/ source.t # "str" THEN None
    ELSE LET s == strip(source.v)
         IN  IF Len(s) < 4 \/ find(s, "(") = -1 \/ ~endswith(s, ")") THEN None
             ELSE LET parts == Parts(SubSeq(s, find(s, "(") + 2, Len(s) - 1))
                  IN  IF Len(parts) < 9 THEN None ELSE parse_try(s[1], parts)

\* Lines 70-99.  "except Exception: return None" turns every exception of the
\* try block into the absence of a region.
parse_cu_source_string(source) ==
    IF ~Truthy(source) \/ source.t # "str" THEN None
    ELSE LET s == strip(source.v)
         IN  IF Len(s) < 4 \/ find(s, "(") = -1 \/ ~endswith(s, ")") THEN None
             ELSE LET parts == Parts(SubSeq(s, find(s, "(") + 2, Len(s) - 1))
                  IN  IF Len(parts) < 9 THEN None
                      ELSE LET r == parse_try(s[1], parts)
                           IN  IF IsRaise(r) THEN None ELSE r

(***************************************************************************)
(* Region extractor (lines 102-129).  The polygons and boxes of the inputs  *)
(* hold numbers only.                                                       *)
(***************************************************************************)
\* int(p) of a Python value: the exception it raises ("" when it raises none).
IntError(p) ==
    CASE p.t \in {"num", "bool"} -> ""
      [] p.t = "str" ->
            IF is_float(p.v) /\ find(p.v, ".") = -1 THEN "" ELSE "ValueError"
      [] OTHER -> "TypeError"

\* int(p) when it raises nothing.
IntValue(p) ==
    CASE p.t = "num"  -> int(p.v)
      [] p.t = "bool" -> IF p.v THEN 1 ELSE 0
      [] p.t = "str"  -> int(float(p.v))

\* The numbers of a list of numbers.
Nums(l) == [i \in 1..Len(l.v) |-> l.v[i].v]

\* The loop of lines 109-118 over the remaining elements, `regions` being what
\* was appended so far; a raised exception ends the function.
RECURSIVE bounding_regions_loop(_, _, _)
bounding_regions_loop(brs, page_num, regions) ==
    IF brs = <<>> THEN List(regions)
    ELSE LET br == Head(brs)
         IN  IF br.t # "dict" THEN Raise("AttributeError")
             ELSE LET p    == Or(Or(Get(br, "pageNumber"), Get(br, "page")), page_num)
                      poly == Or(Get(br, "polygon"), Get(br, "points"))
                      bbox == Get(br, "boundingBox")
                  IN  IF Truthy(poly) /\ poly.t = "list" /\ Len(poly.v) >= 8
                      THEN IF IntError(p) # "" THEN Raise(IntError(p))
                           ELSE bounding_regions_loop(Tail(brs), page_num,
                                    Append(regions,
                                        Region(None, IntValue(p), poly,
                                               _coerce_polygon_to_bbox(Nums(poly)))))
                      ELSE IF Truthy(bbox) /\ bbox.t = "list" /\ Len(bbox.v) = 4
                      THEN IF IntError(p) # "" THEN Raise(IntError(p))
                           ELSE bounding_regions_loop(Tail(brs), page_num,
                                    Append(regions,
                                        Region(None, IntValue(p), None,
                                               <<bbox.v[1].v, bbox.v[2].v,
                                                 bbox.v[3].v, bbox.v[4].v>>)))
                      ELSE bounding_regions_loop(Tail(brs), page_num, regions)

_normalize_regions_from_source(src) ==
    LET page_num == Or(Or(Get(src, "pageNumber"), Get(src, "page")),
                       Get(src, "pageIndex"))
        bounding_regions == Or(Or(Get(src, "boundingRegions"), Get(src, "regions")),
                               List(<<>>))
    IN  IF bounding_regions.t = "list" /\ Truthy(bounding_regions)
        THEN bounding_regions_loop(bounding_regions.v, page_num, <<>>)
        ELSE LET poly == Or(Get(src, "polygon"), Get(src, "points"))
                 bbox == Get(src, "boundingBox")
             IN  IF /\ Truthy(poly) /\ poly.t = "list" /\ Len(poly.v) >= 8
                    /\ Truthy(page_num)
                 THEN IF IntError(page_num) # "" THEN Raise(IntError(page_num))
                      ELSE List(<<Region(None, IntValue(page_num), poly,
                                         _coerce_polygon_to_bbox(Nums(poly)))>>)
                 ELSE IF /\ Truthy(bbox) /\ bbox.t = "list" /\ Len(bbox.v) = 4
                         /\ Truthy(page_num)
                 THEN IF IntError(page_num) # "" THEN Raise(IntError(page_num))
                      ELSE List(<<Region(None, IntValue(page_num), None,
                                         <<bbox.v[1].v, bbox.v[2].v,
                                           bbox.v[3].v, bbox.v[4].v>>)>>)
                 ELSE List(<<>>)

(***************************************************************************)
(* Evidence gatherer (lines 132-151).                                       *)
(***************************************************************************)
IsContainer(x) == x.t \in {"dict", "list"}

RECURSIVE _gather_sources_recursive(_)
RECURSIVE gather_each(_)

\* sources.extend(_gather_sources_recursive(n)) for each n of `nodes` in turn.
gather_each(nodes) ==
    IF nodes = <<>> THEN <<>>
    ELSE _gather_sources_recursive(Head(nodes)) \o gather_each(Tail(nodes))

_gather_sources_recursive(node) ==
    IF node.t = "dict"
    THEN (IF Has(node, "source") THEN <<Get(node, "source")>> ELSE <<>>)
            \o (IF Has(node, "sources") THEN <<Get(node, "sources")>> ELSE <<>>)
            \o (IF Has(node, "evidence") THEN <<Get(node, "evidence")>> ELSE <<>>)
            \o gather_each(SelectSeq(Values(node), IsContainer))
    ELSE IF node.t = "list" THEN gather_each(node.v)
    ELSE <<>>

(***************************************************************************)
(* Source-to-region resolver (lines 154-179).                               *)
(***************************************************************************)
RECURSIVE _consume_source_item(_, _)
RECURSIVE consume_each(_, _)

\* _consume_source_item(it) for each it of `items` in turn; `regions` is the
\* enclosing function's list (or the exception that already left it).
consume_each(items, regions) ==
    IF items = <<>> \/ IsRaise(regions) THEN regions
    ELSE consume_each(Tail(items), _consume_source_item(Head(items), regions))

\* if parsed: regions.append(parsed)   (lines 159-161)
append_parsed(regions, parsed) ==
    IF Truthy(parsed) THEN List(Append(regions.v, parsed)) ELSE regions

\* regions.extend(more); an exception of the call that gave `more` leaves
\* the function   (line 163)
extend_regions(regions, more) ==
    IF IsRaise(more) THEN more ELSE List(regions.v \o more.v)

_consume_source_item(item, regions) ==
    CASE item.t = "str" -> append_parsed(regions, parse_cu_source_string(item))
      [] item.t = "dict" -> extend_regions(regions, _normalize_regions_from_source(item))
      [] item.t = "list" -> consume_each(item.v, regions)
      [] OTHER -> regions

\* key = (r.get("pageNumber"), r.get("bbox"))
RegionKey(r) == <<r.v.pageNumber, r.v.bbox>>

\* The loop of lines 173-177 with nothing removed.
RECURSIVE dedup_loop_KeepAll(_, _, _)
dedup_loop_KeepAll(regions, deduped, seen) ==
    IF regions = <<>> THEN deduped
    ELSE dedup_loop_KeepAll(Tail(regions), Append(deduped, Head(regions)), seen)

\* The loop of lines 173-177.
RECURSIVE dedup_loop(_, _, _)
dedup_loop(regions, deduped, seen) ==
    IF regions = <<>> THEN deduped
    ELSE LET r == Head(regions)
         IN  IF RegionKey(r) \notin seen
             THEN dedup_loop(Tail(regions), Append(deduped, r),
                             seen \cup {RegionKey(r)})
             ELSE dedup_loop(Tail(regions), deduped, seen)

\* Lines 171-179 applied to the list the consuming loop left.
deduped_of(regions) ==
    IF IsRaise(regions) THEN regions
    ELSE List(dedup_loop(regions.v, <<>>, {}))

_sources_to_regions(raw_sources) ==
    deduped_of(consume_each(raw_sources, List(<<>>)))

(***************************************************************************)
(* Field value resolver (lines 182-197) and fields-map locator (200-217).   *)
(***************************************************************************)
\* The chain written with dict.get and "or": the first truthy value.
_pick_value_from_field_obj_Truthy(field_obj) ==
    Or(Or(Or(Or(Or(Or(Get(field_obj, "valueString"), Get(field_obj, "valueNumber")),
                   Get(field_obj, "valueBoolean")), Get(field_obj, "valueDate")),
             Get(field_obj, "valueArray")), Get(field_obj, "valueObject")),
       Get(field_obj, "value"))

_pick_value_from_field_obj(field_obj) ==
    IF Has(field_obj, "valueString") THEN Item(field_obj, "valueString")
    ELSE IF Has(field_obj, "valueNumber") THEN Item(field_obj, "valueNumber")
    ELSE IF Has(field_obj, "valueBoolean") THEN Item(field_obj, "valueBoolean")
    ELSE IF Has(field_obj, "valueDate") THEN Item(field_obj, "valueDate")
    ELSE IF Has(field_obj, "valueArray") THEN Item(field_obj, "valueArray")
    ELSE IF Has(field_obj, "valueObject") THEN Item(field_obj, "valueObject")
    ELSE IF Has(field_obj, "value") THEN Item(field_obj, "value")
    ELSE None

IsDict(x) == x.t = "dict"

RECURSIVE _find_fields_map(_)
RECURSIVE find_fields_each(_)

\* for v in ...: found = _find_fields_map(v); if found: return found
find_fields_each(vs) ==
    IF vs = <<>> THEN None
    ELSE LET found == _find_fields_map(Head(vs))
         IN  IF Truthy(found) THEN found ELSE find_fields_each(Tail(vs))

_find_fields_map(obj) ==
    IF obj.t = "dict"
    THEN IF /\ Truthy(obj)
            /\ \A i \in 1..Len(obj.v) : IsDict(obj.v[i][2])
            /\ LET sample == obj.v[1][2]
               IN  \/ Has(sample, "value") \/ Has(sample, "valueString")
                   \/ Has(sample, "sources") \/ Has(sample, "source")
         THEN obj
         ELSE find_fields_each(Values(obj))
    ELSE IF obj.t = "list" THEN find_fields_each(obj.v)
    ELSE None

(***************************************************************************)
(* extract_fields_with_locations (lines 220-270).  A field is the dict      *)
(* {name, value, regions}.                                                  *)
(***************************************************************************)
Field(name, value, regions) ==
    [t |-> "field", v |-> [name |-> name, value |-> value, regions |-> regions]]

KindDocument == Str(<<"d", "o", "c", "u", "m", "e", "n", "t">>)
KindText     == Str(<<"t", "e", "x", "t">>)

\* c.get("kind") in ("document", "text", None), for a dict c.
IsDocumentLike(c) ==
    c.t = "dict" /\ Get(c, "kind") \in {KindDocument, KindText, None}

\* Lines 225-231.
PickContent(contents) ==
    IF \E i \in 1..Len(contents) : IsDocumentLike(contents[i])
    THEN contents[CHOOSE i \in 1..Len(contents) :
                    /\ IsDocumentLike(contents[i])
                    /\ \A j \in 1..(i - 1) : ~IsDocumentLike(contents[j])]
    ELSE IF contents # <<>> THEN contents[1]
    ELSE None

\* Lines 233-240.
CandidateFields(content) ==
    IF content.t # "dict" THEN <<>>
    ELSE LET direct(k) == IF Has(content, k) /\ IsDict(Item(content, k))
                          THEN <<Item(content, k)>> ELSE <<>>
             extraction == Or(Or(Get(content, "extraction"), Get(content, "result")),
                              Dict(<<>>))
         IN  direct("fields") \o direct("extractedFields") \o direct("output")
                \o direct("data")
                \o (IF IsDict(extraction) /\ IsDict(Get(extraction, "fields"))
                    THEN <<Item(extraction, "fields")>> ELSE <<>>)

\* The loop of lines 247-268 with the fields that have no region left out.
RECURSIVE fields_loop_OnlyLocated(_, _)
RECURSIVE append_located(_, _, _)
append_located(items, extracted, regions) ==
    IF IsRaise(regions) THEN regions
    ELSE IF ~Truthy(regions) THEN fields_loop_OnlyLocated(Tail(items), extracted)
    ELSE fields_loop_OnlyLocated(Tail(items),
            Append(extracted,
                   Field(items[1][1], _pick_value_from_field_obj(items[1][2]), regions)))

fields_loop_OnlyLocated(items, extracted) ==
    IF items = <<>> THEN List(extracted)
    ELSE IF items[1][2].t # "dict" THEN fields_loop_OnlyLocated(Tail(items), extracted)
    ELSE append_located(items, extracted,
            _sources_to_regions(_gather_sources_recursive(items[1][2])))

\* The loop of lines 247-268 over the remaining items of the fields map.
RECURSIVE fields_loop(_, _)

\* Lines 253-256: the field object's own sources / source / evidence value,
\* as a list.
own_sources(field_obj) ==
    LET sources == Or(Or(Or(Get(field_obj, "sources"), Get(field_obj, "source")),
                         Get(field_obj, "evidence")), List(<<>>))
    IN  IF sources.t # "list" THEN <<sources>> ELSE sources.v

\* Lines 258-260: `regions` is what line 256 gave; when it is empty the deep
\* search replaces it.
nested_regions(field_obj, regions) ==
    IF IsRaise(regions) \/ Truthy(regions) THEN regions
    ELSE _sources_to_regions(_gather_sources_recursive(field_obj))

\* Lines 262-268, then the rest of the loop.
append_field(items, extracted, regions) ==
    IF IsRaise(regions) THEN regions
    ELSE fields_loop(Tail(items),
            Append(extracted,
                   Field(items[1][1], _pick_value_from_field_obj(items[1][2]), regions)))

fields_loop(items, extracted) ==
    IF items = <<>> THEN List(extracted)
    ELSE IF items[1][2].t # "dict" THEN fields_loop(Tail(items), extracted)
    ELSE append_field(items, extracted,
            nested_regions(items[1][2],
                           _sources_to_regions(own_sources(items[1][2]))))

extract_fields_with_locations(analysis_result) ==
    LET nested   == Or(Get(Or(Get(analysis_result, "result"), Dict(<<>>)), "contents"),
                       List(<<>>))
        contents == IF ~Truthy(nested)
                    THEN Or(Get(analysis_result, "contents"), List(<<>>))
                    ELSE nested
        content  == PickContent(contents.v)
        candidate_fields == CandidateFields(content)
        fields_map == IF candidate_fields # <<>> THEN candidate_fields[1]
                      ELSE _find_fields_map(analysis_result)
    IN  IF ~Truthy(fields_map) \/ fields_map.t # "dict" THEN List(<<>>)
        ELSE fields_loop(fields_map.v, <<>>)

(***************************************************************************)
(* Classifier output interpreter (lines 330-362).  The pair (label,         *)
(* confidence) a call returns is the value tagged "tuple".                  *)
(***************************************************************************)
Tuple(a, b) == [t |-> "tuple", v |-> <<a, b>>]

\* float(c) of a Python value: the exception it raises ("" when none).
FloatError(c) ==
    CASE c.t \in {"num", "bool"} -> ""
      [] c.t = "str" -> IF is_float(c.v) THEN "" ELSE "ValueError"
      [] OTHER -> "TypeError"

\* float(c) when it raises nothing, in hundredths.
FloatValue(c) ==
    CASE c.t = "num"  -> c.v
      [] c.t = "bool" -> IF c.v THEN 100 ELSE 0
      [] c.t = "str"  -> float(c.v)

\* Lines 333-337 (and 340-344): the confidence read with "or", then coerced.
Confidence(obj) ==
    LET conf == Or(Or(Get(obj, "confidence"), Get(obj, "score")),
                   Get(obj, "probability"))
    IN  IF conf = None THEN None
        ELSE IF FloatError(conf) # "" THEN None
        ELSE Num(FloatValue(conf))

RECURSIVE _find_first_category(_)
RECURSIVE find_category_each(_)
RECURSIVE find_category_each_Last(_)

\* The loops of lines 346-354 run from the last value to the first.
find_category_each_Last(vs) ==
    IF vs = <<>> THEN None
    ELSE LET found == _find_first_category(vs[Len(vs)])
         IN  IF Truthy(found) THEN found
             ELSE find_category_each_Last(SubSeq(vs, 1, Len(vs) - 1))

\* for v in ...: found = _find_first_category(v); if found: return found
find_category_each(vs) ==
    IF vs = <<>> THEN None
    ELSE LET found == _find_first_category(Head(vs))
         IN  IF Truthy(found) THEN found ELSE find_category_each(Tail(vs))

_find_first_category(obj) ==
    IF obj.t = "dict"
    THEN IF Has(obj, "category") /\ Item(obj, "category").t = "str"
         THEN Tuple(Item(obj, "category"), Confidence(obj))
         ELSE IF Has(obj, "label") /\ Item(obj, "label").t = "str"
         THEN Tuple(Item(obj, "label"), Confidence(obj))
         ELSE find_category_each(Values(obj))
    ELSE IF obj.t = "list" THEN find_category_each(obj.v)
    ELSE None

parse_classifier_output(result) ==
    LET found == _find_first_category(result)
    IN  IF Truthy(found) THEN found ELSE Tuple(None, None)

(***************************************************************************)
(* Region projection (lines 273-290).  An image is [size, rects]: its pixel *)
(* size and the rectangles drawn on it; `heap` holds the images by          *)
(* reference.  A drawn coordinate is the exact quotient [n, d] of x * s     *)
(* (the rounding of the float product is not represented).                  *)
(***************************************************************************)
\* page_img used as the drawing target itself (no copy taken).
copy_image_Alias(heap, page_img) == [heap |-> heap, img |-> page_img]

\* img = page_img.copy(): a new image with the same content.
copy_image(heap, page_img) ==
    [heap |-> Append(heap, heap[page_img]), img |-> Len(heap) + 1]

RECURSIVE GCD(_, _)
GCD(a, b) == IF b = 0 THEN a ELSE GCD(b, a % b)

\* The quotient n / d in lowest terms (n >= 0, d > 0).
Quotient(n, d) == [n |-> n \div GCD(n, d), d |-> d \div GCD(n, d)]

\* (W / page_dim_doc) if page_dim_doc else 1.0, as a quotient.
ScaleFactor(pixels, page_dim_doc) ==
    IF Truthy(page_dim_doc) THEN Quotient(100 * pixels, page_dim_doc.v)
    ELSE Quotient(1, 1)

\* x * s for a coordinate x in hundredths.
Scaled(x, s) == Quotient(x * s.n, 100 * s.d)

\* Both factors taken from the width.
scaled_rect_WidthOnly(W, H, bbox, page_width_doc, page_height_doc) ==
    LET sx == ScaleFactor(W, page_width_doc)
    IN  <<Scaled(bbox[1], sx), Scaled(bbox[2], sx), Scaled(bbox[3], sx),
          Scaled(bbox[4], sx)>>

\* Lines 282-283 and 286-287: the rectangle drawn for one bbox.
scaled_rect(W, H, bbox, page_width_doc, page_height_doc) ==
    LET sx == ScaleFactor(W, page_width_doc)
        sy == ScaleFactor(H, page_height_doc)
    IN  <<Scaled(bbox[1], sx), Scaled(bbox[2], sy), Scaled(bbox[3], sx),
          Scaled(bbox[4], sy)>>

\* The heap after the call and the reference returned.
draw_regions_on_page(heap, page_img, regions, page_width_doc, page_height_doc) ==
    LET c  == copy_image(heap, page_img)
        W  == c.heap[c.img].size[1]
        H  == c.heap[c.img].size[2]
        rs == [i \in 1..Len(regions) |->
                scaled_rect(W, H, regions[i].v.bbox, page_width_doc, page_height_doc)]
    IN  [heap |-> [c.heap EXCEPT ![c.img].rects = @ \o rs], img |-> c.img]

(***************************************************************************)
(* The session: configuration (lines 25-30, 438-448), session state         *)
(* (416-430) and the helpers the Run handler calls.                         *)
(*                                                                           *)
(* bytes are [t |-> "bytes", v |-> content]; the content of a file is the    *)
(* record [id, len, pdf, pages]: what tells it from other contents, its      *)
(* length in bytes, whether PyMuPDF can open it, and the size of each page   *)
(* in points.  A formatted string (f"...") is kept as the sequence of its    *)
(* pieces.                                                                   *)
(***************************************************************************)
MAX_FILE_MB == 20

CLASSIFIER_ID == Str(<<"c", "l", "a", "s", "s", "i", "f", "i", "e", "r", "_", "i",
        "d", "p">>)
ANALYZER_INVOICES_ID == Str(<<"a", "n", "a", "l", "y", "z", "e", "r", "_", "i", "n", "v",
        "o", "i", "c", "e", "s">>)
ANALYZER_BANK_STATEMENTS_ID == Str(<<"a", "n", "a", "l", "y", "z", "e", "r", "_", "b", "a", "n",
        "k", "_", "s", "t", "a", "t", "e", "m", "e", "n", "t", "s">>)
ANALYZER_LOAN_ID == Str(<<"a", "n", "a", "l", "y", "z", "e", "r", "_", "l", "o", "a",
        "n">>)

\* The labels of the (disabled) text inputs, lines 441-446.
label_a == Str(<<"I", "n", "v", "o", "i", "c", "e", "s">>)
label_b == Str(<<"B", "a", "n", "k", " ", "S", "t", "a", "t", "e", "m", "e",
        "n", "t", "s">>)
label_c == Str(<<"L", "o", "a", "n", " ", "A", "p", "p", "l", "i", "c", "a",
        "t", "i", "o", "n", " ", "F", "o", "r", "m">>)

\* Lines 473-477; the keys are the stripped label texts.
analyzer_map ==
    Dict(<< <<strip(label_a.v), Str(strip(ANALYZER_INVOICES_ID.v))>>,
            <<strip(label_b.v), Str(strip(ANALYZER_BANK_STATEMENTS_ID.v))>>,
            <<strip(label_c.v), Str(strip(ANALYZER_LOAN_ID.v))>> >>)

\* sorted(analyzer_map.items()): "Bank Statements" < "Invoices" < "Loan ...".
sorted_items(m) == <<m.v[2], m.v[1], m.v[3]>>

Bytes(content) == [t |-> "bytes", v |-> content]

len(data) == data.v.len

Format(pieces) == Str(pieces)

\* hashlib.sha1(data).hexdigest(): a text that the content determines and
\* that determines the content (no collisions among the files in use).
_hash_bytes(data) ==
    IF data.t = "bytes" THEN Format(<<"sha1", data.v.id>>) ELSE Raise("TypeError")

\* f"live:{pdf_hash}:{classifier_id}:{sorted(analyzer_map.items())}"  (line 488)
live_analysis_key(pdf_bytes) ==
    Format(<<"live:", _hash_bytes(pdf_bytes).v, ":", CLASSIFIER_ID.v, ":",
             sorted_items(analyzer_map)>>)

\* f"offline:{json_path}"  (line 572)
offline_analysis_key(json_path) == Format(<<"offline:", json_path>>)

\* f"{_hash_bytes(pdf_bytes)}:{zoom}"  (lines 549, 552, 582, 585)
render_key(pdf_bytes, zoom) ==
    IF IsRaise(_hash_bytes(pdf_bytes)) THEN _hash_bytes(pdf_bytes)
    ELSE Format(<<_hash_bytes(pdf_bytes).v, ":", zoom.v>>)

\* Lines 54-62: one image per page, page size times zoom; fitz.open raises on
\* bytes that are no PDF.  The images are new objects.
render_pdf_pages(pdf_bytes, zoom) ==
    IF pdf_bytes.t # "bytes" THEN Raise("TypeError")
    ELSE IF ~pdf_bytes.v.pdf THEN Raise("FileDataError")
    ELSE List([k \in 1..Len(pdf_bytes.v.pages) |->
                [size |-> << (pdf_bytes.v.pages[k][1] * zoom.v) \div 100,
                             (pdf_bytes.v.pages[k][2] * zoom.v) \div 100 >>,
                 rects |-> <<>>]])

\* Lines 365-378.
RECURSIVE _find_usage_block(_)
RECURSIVE find_usage_each(_)

found_usage_or_next(found, rest) ==
    IF Truthy(found) THEN found ELSE find_usage_each(rest)

find_usage_each(items) ==
    IF items = <<>> THEN None
    ELSE found_usage_or_next(_find_usage_block(Head(items)), Tail(items))

_find_usage_block(obj) ==
    CASE obj.t = "dict" ->
            IF Has(obj, "usage") /\ IsDict(Item(obj, "usage")) THEN Item(obj, "usage")
            ELSE find_usage_each(Values(obj))
      [] obj.t = "list" -> find_usage_each(obj.v)
      [] OTHER -> None

\* k.endswith("-input"), k.endswith("-output") and k.replace(suffix, "") for
\* the token keys that occur in usage blocks.
TokenKey(k) ==
    CASE k = "gpt-input"   -> [suffix |-> "-input",  model |-> <<"g", "p", "t">>]
      [] k = "gpt-output"  -> [suffix |-> "-output", model |-> <<"g", "p", "t">>]
      [] k = "mini-input"  -> [suffix |-> "-input",  model |-> <<"m", "i", "n", "i">>]
      [] k = "mini-output" -> [suffix |-> "-output", model |-> <<"m", "i", "n", "i">>]
      [] k = "-input"      -> [suffix |-> "-input",  model |-> <<>>]
      [] OTHER             -> [suffix |-> "", model |-> <<>>]

\* The model names in sorted order.
ModelOrder == << <<"g", "p", "t">>, <<"m", "i", "n", "i">> >>

\* The loop of lines 389-396.
RECURSIVE tokens_loop(_, _)
tokens_loop(items, acc) ==
    IF items = <<>> THEN acc
    ELSE IF items[1][2].t \notin {"num", "bool"} THEN tokens_loop(Tail(items), acc)
    ELSE IF TokenKey(items[1][1]).suffix = "-input"
    THEN tokens_loop(Tail(items),
            [acc EXCEPT !.total_input = @ + IntValue(items[1][2]),
                        !.model_names = @ \cup {TokenKey(items[1][1]).model}])
    ELSE IF TokenKey(items[1][1]).suffix = "-output"
    THEN tokens_loop(Tail(items),
            [acc EXCEPT !.total_output = @ + IntValue(items[1][2]),
                        !.model_names = @ \cup {TokenKey(items[1][1]).model}])
    ELSE tokens_loop(Tail(items), acc)

\* Lines 397-404.
usage_summary_of(usage, acc) ==
    LET names == SelectSeq(ModelOrder, LAMBDA m : m \in acc.model_names)
    IN  Dict(<< <<"models", List([i \in 1..Len(names) |-> Str(names[i])])>>,
                <<"input_tokens", N(acc.total_input)>>,
                <<"output_tokens", N(acc.total_output)>>,
                <<"raw_usage", usage>> >>)

\* Lines 382-396 for the usage block found.
usage_totals(usage) ==
    IF Or(Get(usage, "tokens"), Dict(<<>>)).t = "dict"
    THEN tokens_loop(Or(Get(usage, "tokens"), Dict(<<>>)).v,
                     [model_names |-> {}, total_input |-> 0, total_output |-> 0])
    ELSE [model_names |-> {}, total_input |-> 0, total_output |-> 0]

usage_block_summary(usage) == usage_summary_of(usage, usage_totals(usage))

_extract_usage_summary(result) ==
    usage_block_summary(Or(_find_usage_block(result), Dict(<<>>)))

\* Lines 416-430 on a new session: every key is set to None.
_ensure_session_state ==
    [analysis_cache_key |-> None, analysis_result |-> None,
     analysis_fields |-> None, analysis_meta |-> None, pdf_bytes |-> None,
     render_cache_key |-> None, page_images |-> None]

\* No Run is in progress and none has been made.  pc is the position of the
\* script; the other fields are its locals (None: not assigned), the message
\* it ended with, and the remote calls it made.
NoRun ==
    [pc |-> "idle", mode |-> "", outcome |-> "", calls |-> <<>>,
     zoom |-> None, pdf_bytes |-> None, analysis_key |-> None,
     classify_result |-> None, doc_label |-> None, doc_conf |-> None,
     analyzer_id |-> None, analyze_result |-> None, fields |-> None]

\* The viewer before its first run: "page_num" is not in st.session_state
\* (None here; the code never stores None under that key), nothing was
\* passed to the page selector (value, max_value) or shown.
NoViewer ==
    [page_num |-> None, value |-> None, max_value |-> 0, outcome |-> ""]

\* prereq.py before main is run: no resource exists at the service, no call
\* is in progress and no request was sent.  `exists` is the set of ids the
\* service holds, `runs` and `completed` count the runs of main begun and
\* returned, `step` is the call of main in progress (0: none), `requests` the
\* requests sent since main (or a single call) began and `since` the value
\* `completed` had at that moment.
NoProvision ==
    [exists |-> {}, runs |-> 0, completed |-> 0, since |-> 0, step |-> 0,
     pc |-> "idle", fn |-> "", id |-> None, skip_existing |-> TRUE,
     requests |-> <<>>, outcome |-> ""]

\* The session variables of a pure-function harness: never touched.
NoSession ==
    /\ session_state = _ensure_session_state
    /\ run = NoRun
    /\ before = _ensure_session_state
    /\ viewer = NoViewer
    /\ prov = NoProvision

\* st.error(message); st.stop(), or an exception that ends the script run.
Stopped(r, message) == [r EXCEPT !.pc = "idle", !.outcome = message]

\* Lines 464-490 with the cache test of line 490 left out: every Run that
\* passes the checks goes to the classifier.
live_run_start_NoCache(session, uploaded, zoom) ==
    IF ~Truthy(uploaded)
    THEN Stopped([NoRun EXCEPT !.mode = "live", !.zoom = zoom], "Please upload a PDF.")
    ELSE IF len(uploaded) > MAX_FILE_MB * (1024 * 1024)
    THEN Stopped([NoRun EXCEPT !.mode = "live", !.zoom = zoom, !.pdf_bytes = uploaded],
                 "File is too large.")
    ELSE [NoRun EXCEPT !.mode = "live", !.zoom = zoom, !.pdf_bytes = uploaded,
                       !.analysis_key = live_analysis_key(uploaded),
                       !.pc = "classify"]

\* Lines 464-490: the checks of a live Run up to the cache test.
live_run_start(session, uploaded, zoom) ==
    IF ~Truthy(uploaded)
    THEN Stopped([NoRun EXCEPT !.mode = "live", !.zoom = zoom], "Please upload a PDF.")
    ELSE IF strip(CLASSIFIER_ID.v) = <<>>
    THEN Stopped([NoRun EXCEPT !.mode = "live", !.zoom = zoom],
                 "Classifier ID is required.")
    ELSE IF \E i \in 1..Len(analyzer_map.v) : ~Truthy(analyzer_map.v[i][2])
    THEN Stopped([NoRun EXCEPT !.mode = "live", !.zoom = zoom],
                 "Analyzer IDs are required for all document types.")
    ELSE IF len(uploaded) > MAX_FILE_MB * (1024 * 1024)
    THEN Stopped([NoRun EXCEPT !.mode = "live", !.zoom = zoom, !.pdf_bytes = uploaded],
                 "File is too large.")
    ELSE [NoRun EXCEPT !.mode = "live", !.zoom = zoom, !.pdf_bytes = uploaded,
                       !.analysis_key = live_analysis_key(uploaded),
                       !.pc = IF session.analysis_cache_key # live_analysis_key(uploaded)
                              THEN "classify" ELSE "render"]

\* Lines 508-516 with the test of line 514 left out: a label without an
\* analyzer goes on to the extraction.
map_label_AnyLabel(r, found) ==
    IF ~Truthy(found.v[1])
    THEN Stopped([r EXCEPT !.doc_label = found.v[1], !.doc_conf = found.v[2]],
                 "Could not determine document type from classifier output.")
    ELSE [r EXCEPT !.doc_label = found.v[1], !.doc_conf = found.v[2],
                   !.analyzer_id = Get(analyzer_map, found.v[1].v),
                   !.pc = "extract"]

\* Lines 508-516 for the (label, confidence) pair found.
map_label(r, found) ==
    IF ~Truthy(found.v[1])
    THEN Stopped([r EXCEPT !.doc_label = found.v[1], !.doc_conf = found.v[2]],
                 "Could not determine document type from classifier output.")
    ELSE IF ~Truthy(Get(analyzer_map, found.v[1].v))
    THEN Stopped([r EXCEPT !.doc_label = found.v[1], !.doc_conf = found.v[2],
                           !.analyzer_id = Get(analyzer_map, found.v[1].v)],
                 "No analyzer mapped for document label.")
    ELSE [r EXCEPT !.doc_label = found.v[1], !.doc_conf = found.v[2],
                   !.analyzer_id = Get(analyzer_map, found.v[1].v),
                   !.pc = "extract"]

\* Lines 536-547 (live) and 572-580 (offline): the session after the writes.
session_writes(session, r, fields) ==
    IF r.mode = "live"
    THEN [session EXCEPT
            !.analysis_cache_key = r.analysis_key,
            !.analysis_result = r.analyze_result,
            !.analysis_fields = fields,
            !.analysis_meta =
                Dict(<< <<"doc_label", r.doc_label>>,
                        <<"doc_conf", r.doc_conf>>,
                        <<"analyzer_id", r.analyzer_id>>,
                        <<"classification_result", r.classify_result>>,
                        <<"usage_summary", _extract_usage_summary(r.analyze_result)>> >>),
            !.pdf_bytes = r.pdf_bytes]
    ELSE [session EXCEPT
            !.analysis_cache_key = r.analysis_key,
            !.analysis_result = r.analyze_result,
            !.analysis_fields = fields,
            !.analysis_meta =
                Dict(<< <<"doc_label", Str(<<"O", "f", "f", "l", "i", "n", "e">>)>>,
                        <<"analyzer_id", Str(<<"O", "f", "f", "l", "i", "n", "e">>)>>,
                        <<"usage_summary", _extract_usage_summary(r.analyze_result)>> >>),
            !.pdf_bytes = r.pdf_bytes]

\* Lines 531-547 and 567-580 with the test of lines 532 / 568 left out.
session_after_fields_WriteFirst(session, r, fields) ==
    IF IsRaise(fields) THEN session ELSE session_writes(session, r, fields)

\* Lines 531-547 and 567-580: the session once `fields` has been computed.
\* An exception of the extractor, or an empty list, ends the script before
\* the first write.
session_after_fields(session, r, fields) ==
    IF IsRaise(fields) \/ ~Truthy(fields) THEN session
    ELSE session_writes(session, r, fields)

\* Lines 531-534 and 567-570: the script once `fields` has been computed.
run_after_fields(r, fields) ==
    IF IsRaise(fields) THEN Stopped(r, "exception")
    ELSE IF ~Truthy(fields)
    THEN Stopped([r EXCEPT !.fields = fields], "No fields found.")
    ELSE [r EXCEPT !.fields = fields, !.pc = "render"]

\* Lines 555-565: the checks and reads of an offline Run.  `json_file` and
\* `pdf_file` are what the two paths hold: None (no such file), for the JSON
\* path an exception of json.load, else the content.
offline_run_start(json_path, json_file, pdf_file, zoom) ==
    IF json_file = None
    THEN Stopped([NoRun EXCEPT !.mode = "offline", !.zoom = zoom], "JSON file not found.")
    ELSE IF pdf_file = None
    THEN Stopped([NoRun EXCEPT !.mode = "offline", !.zoom = zoom], "PDF file not found.")
    ELSE IF IsRaise(json_file)
    THEN Stopped([NoRun EXCEPT !.mode = "offline", !.zoom = zoom], "exception")
    ELSE [NoRun EXCEPT !.mode = "offline", !.zoom = zoom,
                       !.analyze_result = json_file, !.pdf_bytes = pdf_file,
                       !.analysis_key = offline_analysis_key(json_path),
                       !.pc = "fields"]

(***************************************************************************)
(* Source strings given to the parser: a kind character, the parentheses,   *)
(* a page token, coordinate tokens and trailing tokens, each of which the   *)
(* input may have or lack.  A token is [txt, num, val]: its text, whether   *)
(* it reads as a number, and that number in hundredths.                     *)
(***************************************************************************)
DigitChar(n) ==
    CASE n = 0 -> "0" [] n = 1 -> "1" [] n = 2 -> "2" [] n = 3 -> "3"
      [] n = 4 -> "4" [] n = 5 -> "5" [] n = 6 -> "6" [] n = 7 -> "7"
      [] n = 8 -> "8" [] n = 9 -> "9"

NumTok(n) == [txt |-> <<DigitChar(n)>>, num |-> TRUE, val |-> 100 * n]
BadTok    == [txt |-> <<"x">>, num |-> FALSE, val |-> 0]
EmptyTok  == [txt |-> <<>>, num |-> FALSE, val |-> 0]

PageToks ==
    { NumTok(0), NumTok(1), NumTok(2), BadTok,
      [txt |-> <<"1", ".", "5">>, num |-> TRUE, val |-> 150],
      [txt |-> <<" ", "2", " ">>, num |-> TRUE, val |-> 200],
      [txt |-> <<"-", "1">>, num |-> TRUE, val |-> 0 - 100] }

\* Four corners of an axis-aligned rectangle, in both orientations.
CoordSeqs ==
    { <<a, b, c, b, c, d, a, d>> : a \in 0..MaxCoord, b \in 0..MaxCoord,
                                    c \in {0, MaxCoord}, d \in {1, MaxCoord} }

ExtraSeqs ==
    UNION { [1..n -> {NumTok(7)}] : n \in 0..MaxExtra }
        \cup { <<BadTok>>, <<EmptyTok>>, <<NumTok(7), BadTok>> }

SourceShapes ==
    { [kind |-> "D", open |-> o, page |-> p, ncoords |-> n, coords |-> cs,
       extra |-> ex, close |-> c] :
        o \in BOOLEAN, p \in PageToks, n \in {7, 8}, cs \in CoordSeqs,
        ex \in ExtraSeqs, c \in {")", "", ") "} }

RECURSIVE JoinToks(_)
JoinToks(toks) ==
    IF toks = <<>> THEN <<>>
    ELSE IF Len(toks) = 1 THEN toks[1].txt
    ELSE toks[1].txt \o <<",">> \o JoinToks(Tail(toks))

Chars(txt) ==
    CASE txt = ""   -> <<>>
      [] txt = ")"  -> <<")">>
      [] txt = ") " -> <<")", " ">>

ShapeToks(sh) ==
    <<sh.page>> \o [i \in 1..sh.ncoords |-> NumTok(sh.coords[i])] \o sh.extra

\* The text K(p,x1,y1,...) of a shape.
SourceText(sh) ==
    <<sh.kind>> \o (IF sh.open THEN <<"(">> ELSE <<>>)
        \o JoinToks(ShapeToks(sh)) \o Chars(sh.close)

\* Arguments that are not source strings at all.
NonStrings == { None, Str(<<>>), N(3), List(<<N(1)>>), Dict(<<>>) }

(***************************************************************************)
(* SpecParse: parse_cu_source_string applied to one argument.               *)
(***************************************************************************)
NoShape == [kind |-> "", open |-> FALSE, page |-> EmptyTok, ncoords |-> 0,
            coords |-> <<>>, extra |-> <<>>, close |-> ""]

InitParse ==
    /\ phase = "ready"
    /\ NoSession
    /\ images = <<>>
    /\ ret = None
    /\ \/ /\ given \in SourceShapes
          /\ arg = Str(SourceText(given))
       \/ /\ given = NoShape
          /\ arg \in NonStrings

ParseCall ==
    /\ phase = "ready"
    /\ ret' = parse_cu_source_string(arg)
    /\ phase' = "done"
    /\ UNCHANGED <<given, arg, images, session_state, run, before, viewer, prov>>

NextParse == ParseCall

SpecParse == InitParse /\ [][NextParse]_vars

(***************************************************************************)
(* Properties of the source-string parser.                                  *)
(***************************************************************************)
\* The comma-separated tokens of the body the argument was written with.
GivenToks == ShapeToks(given)

\* K(p,x1,y1,...,x4,y4[,...]): both parentheses, at least 9 tokens, the page
\* token and the first 8 coordinate tokens numeric.
WellFormedSource ==
    /\ given # NoShape
    /\ given.open
    /\ given.close # ""
    /\ Len(GivenToks) >= 9
    /\ \A i \in 1..9 : GivenToks[i].num

\* The x's and y's of the first 8 coordinate tokens.
GivenXs == {GivenToks[i].val : i \in {2, 4, 6, 8}}
GivenYs == {GivenToks[i].val : i \in {3, 5, 7, 9}}

\* C1: every well-formed source string K(p,x1,..,y4[,...]) parses to a region
\* with pageNumber = p, polygon = the first 8 coordinates and bbox = (min x,
\* min y, max x, max y); whatever follows the 8 coordinates is ignored.
C1_WellFormedParses ==
    (phase = "done" /\ WellFormedSource) =>
        /\ ret.t = "region"
        /\ 100 * ret.v.pageNumber = GivenToks[1].val
        /\ ret.v.polygon = List([i \in 1..8 |-> Num(GivenToks[i + 1].val)])
        /\ \A x \in GivenXs : ret.v.bbox[1] <= x /\ x <= ret.v.bbox[3]
        /\ \A y \in GivenYs : ret.v.bbox[2] <= y /\ y <= ret.v.bbox[4]
        /\ {ret.v.bbox[1], ret.v.bbox[3]} \subseteq GivenXs
        /\ {ret.v.bbox[2], ret.v.bbox[4]} \subseteq GivenYs

\* The malformed inputs: not a string or empty, no opening parenthesis, no
\* closing parenthesis at the end, fewer than 9 tokens, a non-numeric page.
MalformedSource ==
    \/ given = NoShape
    \/ ~given.open
    \/ given.close = ""
    \/ Len(GivenToks) < 9
    \/ ~GivenToks[1].num

\* C2: a malformed source input gives no region (None), and no exception
\* leaves the parser.
C2_MalformedIsNone ==
    (phase = "done" /\ MalformedSource) => ret = None

\* Reached: a string with both parentheses and 9 tokens whose page token is
\* not a number (float() raised inside the try block) came back as None.
C2_Witness ==
    /\ phase = "done"
    /\ given # NoShape
    /\ given.open /\ given.close = ")"
    /\ Len(GivenToks) >= 9
    /\ ~GivenToks[1].num
    /\ ret = None

(***************************************************************************)
(* SpecRegions: _sources_to_regions applied to one list of raw evidence     *)
(* items: source strings, source mappings, nested lists of either, and a    *)
(* value that is none of these.                                             *)
(***************************************************************************)
SrcStr(k, p, cs) ==
    Str(SourceText([kind |-> k, open |-> TRUE, page |-> NumTok(p), ncoords |-> 8,
                    coords |-> cs, extra |-> <<>>, close |-> ")"]))

Poly(cs) == List([i \in 1..Len(cs) |-> N(cs[i])])

RectA == <<0, 0, 2, 0, 2, 1, 0, 1>>
RectB == <<1, 1, 2, 1, 2, 2, 1, 2>>
BoxA  == List(<<N(0), N(0), N(2), N(1)>>)

EvidenceLeaves ==
    { SrcStr("D", 1, RectA),
      SrcStr("P", 1, RectA),
      SrcStr("D", 2, RectA),
      SrcStr("D", 1, RectB),
      Str(<<"x">>),
      Dict(<< <<"page", N(1)>>, <<"polygon", Poly(RectA)>> >>),
      Dict(<< <<"pageNumber", N(1)>>, <<"boundingBox", BoxA>> >>),
      Dict(<< <<"pageNumber", N(2)>>,
              <<"boundingRegions",
                List(<< Dict(<< <<"pageNumber", N(1)>>, <<"polygon", Poly(RectB)>> >>),
                        Dict(<< <<"boundingBox", BoxA>> >>),
                        Dict(<< <<"page", N(1)>>, <<"points", Poly(RectB)>>,
                                <<"boundingBox", BoxA>> >>) >>)>> >>),
      Dict(<< <<"boundingRegions", List(<< Dict(<< <<"polygon", Poly(RectA)>> >>) >>)>> >>),
      Dict(<< <<"polygon", Poly(RectA)>> >>),
      N(5) }

NestedLeaves ==
    { SrcStr("P", 1, RectA), SrcStr("D", 2, RectA),
      Dict(<< <<"pageNumber", N(1)>>, <<"boundingBox", BoxA>> >>) }

EvidenceItems ==
    EvidenceLeaves
        \cup { List(<<a, b>>) : a \in NestedLeaves, b \in NestedLeaves }
        \cup { List(<< List(<<SrcStr("D", 1, RectA)>>), SrcStr("P", 1, RectA) >>) }

EvidenceLists == UNION { [1..n -> EvidenceItems] : n \in 0..MaxItems }

InitRegions ==
    /\ phase = "ready"
    /\ NoSession
    /\ images = <<>>
    /\ ret = None
    /\ given = NoShape
    /\ \E items \in EvidenceLists : arg = List(items)

RegionsCall ==
    /\ phase = "ready"
    /\ ret' = _sources_to_regions(arg.v)
    /\ phase' = "done"
    /\ UNCHANGED <<given, arg, images, session_state, run, before, viewer, prov>>

NextRegions == RegionsCall

SpecRegions == InitRegions /\ [][NextRegions]_vars

\* The strings and mappings of a list of raw items, nested lists opened, in order.
RECURSIVE Leaves(_)
Leaves(items) ==
    IF items = <<>> THEN <<>>
    ELSE (IF Head(items).t = "list" THEN Leaves(Head(items).v) ELSE <<Head(items)>>)
            \o Leaves(Tail(items))

\* What one string or mapping produces: a list of regions or an exception.
ProducedBy(leaf) ==
    CASE leaf.t = "str" ->
            IF parse_cu_source_string(leaf) = None THEN List(<<>>)
            ELSE List(<<parse_cu_source_string(leaf)>>)
      [] leaf.t = "dict" -> _normalize_regions_from_source(leaf)
      [] OTHER -> List(<<>>)

RECURSIVE Concat(_)
Concat(lists) == IF lists = <<>> THEN <<>> ELSE Head(lists).v \o Concat(Tail(lists))

ArgLeaves == Leaves(arg.v)
SomeLeafRaises == \E i \in 1..Len(ArgLeaves) : IsRaise(ProducedBy(ArgLeaves[i]))
AllProduced == Concat([i \in 1..Len(ArgLeaves) |-> ProducedBy(ArgLeaves[i])])

\* The place in `rs` of the first region with key k.
FirstAt(rs, k) ==
    CHOOSE j \in 1..Len(rs) :
        RegionKey(rs[j]) = k /\ \A i \in 1..(j - 1) : RegionKey(rs[i]) # k

ValueKeys ==
    <<"valueString", "valueNumber", "valueBoolean", "valueDate", "valueArray",
      "valueObject", "value">>

OwnValue(k) ==
    CASE k = "valueString"  -> Str(<<"s">>)
      [] k = "valueNumber"  -> N(7)
      [] k = "valueBoolean" -> Bool(TRUE)
      [] k = "valueDate"    -> Str(<<"d">>)
      [] k = "valueArray"   -> List(<<N(1)>>)
      [] k = "valueObject"  -> Dict(<< <<"k", N(1)>> >>)
      [] k = "value"        -> Str(<<"v">>)

FalsyValue(k) ==
    CASE k = "valueString"  -> Str(<<>>)
      [] k = "valueNumber"  -> N(0)
      [] k = "valueBoolean" -> Bool(FALSE)
      [] k = "valueDate"    -> Str(<<>>)
      [] k = "valueArray"   -> List(<<>>)
      [] k = "valueObject"  -> Dict(<<>>)
      [] k = "value"        -> None

\* The dict holding key ValueKeys[i] as how[i] says, inserted in `order`.
RECURSIVE FieldObjItems(_, _)
FieldObjItems(how, order) ==
    IF order = <<>> THEN <<>>
    ELSE LET k == ValueKeys[Head(order)]
             h == how[Head(order)]
         IN  (CASE h = "absent" -> <<>>
                [] h = "own"    -> << <<k, OwnValue(k)>> >>
                [] h = "falsy"  -> << <<k, FalsyValue(k)>> >>)
                \o FieldObjItems(how, Tail(order))

PickInputs ==
    { Dict(FieldObjItems(how, order)) :
        how \in [1..7 -> {"absent", "own", "falsy"}],
        order \in {<<1, 2, 3, 4, 5, 6, 7>>, <<7, 6, 5, 4, 3, 2, 1>>} }

InitPick ==
    /\ phase = "ready"
    /\ NoSession
    /\ images = <<>>
    /\ ret = None
    /\ given = NoShape
    /\ arg \in PickInputs

PickCall ==
    /\ phase = "ready"
    /\ ret' = _pick_value_from_field_obj(arg)
    /\ phase' = "done"
    /\ UNCHANGED <<given, arg, images, session_state, run, before, viewer, prov>>

NextPick == PickCall

SpecPick == InitPick /\ [][NextPick]_vars

\* The places in the priority list of the keys the argument holds.
PresentKeys == {i \in 1..7 : Has(arg, ValueKeys[i])}

\* C4: the resolved value is the value under the first key present in the
\* priority list valueString, valueNumber, valueBoolean, valueDate, valueArray,
\* valueObject, value, whatever its truth value; with valueString and value
\* both present it is the valueString value; with none of the keys it is None.
C4_FirstPresentKey ==
    (phase = "done") =>
        /\ PresentKeys = {} => ret = None
        /\ PresentKeys # {} => ret = Item(arg, ValueKeys[SetMin(PresentKeys)])
        /\ (Has(arg, "valueString") /\ Has(arg, "value"))
                => ret = Item(arg, "valueString")

\* Reached: a falsy valueString was returned although value holds a value.
C4_Witness ==
    /\ phase = "done"
    /\ Has(arg, "valueString") /\ Has(arg, "value")
    /\ ~Truthy(Item(arg, "valueString")) /\ Truthy(Item(arg, "value"))
    /\ ret = Str(<<>>)

(***************************************************************************)
(* SpecFields: extract_fields_with_locations applied to one result          *)
(* document: a fields map of up to MaxFields entries placed at one of the   *)
(* places the extractor looks.                                              *)
(***************************************************************************)
Bar == Str(<<"b", "a", "r">>)

NoPageRegions ==
    Dict(<< <<"boundingRegions", List(<< Dict(<< <<"polygon", Poly(RectA)>> >>) >>)>> >>)

FieldObjs ==
    { Dict(<< <<"valueString", Bar>> >>),
      Dict(<< <<"valueNumber", N(0)>>, <<"value", Str(<<"v">>)>> >>),
      Dict(<< <<"type", Str(<<"s">>)>> >>),
      Dict(<< <<"valueString", Bar>>, <<"source", SrcStr("D", 1, RectA)>> >>),
      Dict(<< <<"valueString", Bar>>,
              <<"sources", List(<< SrcStr("D", 1, RectA),
                                   Dict(<< <<"page", N(1)>>,
                                           <<"polygon", Poly(RectA)>> >>),
                                   SrcStr("D", 2, RectB) >>)>> >>),
      Dict(<< <<"valueObject",
                Dict(<< <<"inner", Dict(<< <<"source", SrcStr("D", 2, RectA)>> >>)>> >>)>> >>),
      Dict(<< <<"value", Str(<<"v">>)>>, <<"evidence", NoPageRegions>> >>),
      Dict(<< <<"valueString", Bar>>, <<"source", Str(<<"x">>)>> >>),
      Dict(<< <<"valueString", Bar>>, <<"source", SrcStr("D", 0, RectA)>> >>),
      Dict(<< <<"value", Str(<<"v">>)>>,
              <<"source", Dict(<< <<"pageIndex", N(0)>>,
                                  <<"boundingRegions",
                                    List(<< Dict(<< <<"polygon", Poly(RectB)>> >>) >>)>> >>)>> >>),
      Bar }

NameOrders == { <<"Foo", "Bar", "Baz", "Qux">>, <<"Qux", "Baz", "Bar", "Foo">> }

FieldsMapsOf(n) ==
    { Dict([i \in 1..n |-> <<names[i], objs[i]>>]) :
        names \in NameOrders, objs \in [1..n -> FieldObjs] }

FieldsMaps == UNION { FieldsMapsOf(n) : n \in 0..MaxFields }

PlainMap == Dict(<< <<"Other", Dict(<< <<"valueString", Str(<<"o">>)>> >>)>> >>)

Content(kind, items) ==
    Dict((IF kind = None THEN <<>> ELSE << <<"kind", kind>> >>) \o items)

KindOther == Str(<<"o">>)

\* The result documents holding the fields map m.
ResultsWith(m) ==
    { Dict(<< <<"result", Dict(<< <<"contents",
            List(<< Content(KindDocument, << <<"fields", m>> >>) >>)>> >>)>> >>),
      Dict(<< <<"result", Dict(<< <<"contents",
            List(<< Content(None, << <<"fields", m>>, <<"data", PlainMap>> >>) >>)>> >>)>> >>),
      Dict(<< <<"contents",
            List(<< Content(KindText, << <<"extractedFields", PlainMap>>,
                                         <<"fields", m>> >>) >>)>> >>),
      Dict(<< <<"result", Dict(<< <<"contents",
            List(<< Content(KindOther, << <<"fields", PlainMap>> >>),
                    Content(KindDocument, << <<"fields", m>> >>) >>)>> >>)>> >>),
      Dict(<< <<"result", Dict(<< <<"contents",
            List(<< Content(KindOther, << <<"fields", m>> >>) >>)>> >>)>> >>),
      Dict(<< <<"result", Dict(<< <<"contents",
            List(<< Content(KindDocument, << <<"extractedFields", m>>,
                                             <<"data", PlainMap>> >>) >>)>> >>)>> >>),
      Dict(<< <<"result", Dict(<< <<"contents",
            List(<< Content(KindDocument,
                            << <<"result", Dict(<< <<"fields", m>> >>)>> >>) >>)>> >>)>> >>),
      Dict(<< <<"result", Dict(<< <<"contents",
            List(<< Content(KindDocument, << <<"pages", List(<<>>)>> >>) >>)>>,
                                    <<"deep", List(<< m >>)>> >>)>> >>),
      Dict(<< <<"result", Dict(<< <<"contents",
            List(<< Content(KindDocument,
                            << <<"extraction", Dict(<< <<"fields", m>> >>)>>,
                               <<"output", PlainMap>> >>) >>)>> >>)>> >>),
      Dict(<< <<"first", List(<< m >>)>>, <<"second", PlainMap>> >>),
      Dict(<< <<"status", Str(<<"o">>)>> >>) }

InitFields ==
    /\ phase = "ready"
    /\ NoSession
    /\ images = <<>>
    /\ ret = None
    /\ given = NoShape
    /\ \E m \in FieldsMaps : arg \in ResultsWith(m)

FieldsCall ==
    /\ phase = "ready"
    /\ ret' = extract_fields_with_locations(arg)
    /\ phase' = "done"
    /\ UNCHANGED <<given, arg, images, session_state, run, before, viewer, prov>>

NextFields == FieldsCall

SpecFields == InitFields /\ [][NextFields]_vars

\* result.contents[0] of the argument, when there is one.
FirstContent ==
    IF /\ Has(arg, "result") /\ IsDict(Item(arg, "result"))
       /\ Has(Item(arg, "result"), "contents")
       /\ Item(Item(arg, "result"), "contents").t = "list"
       /\ Item(Item(arg, "result"), "contents").v # <<>>
    THEN Item(Item(arg, "result"), "contents").v[1]
    ELSE None

\* result.contents[0] is a document-like entry holding a `fields` mapping.
HoldsFieldsMap ==
    /\ FirstContent.t = "dict"
    /\ Get(FirstContent, "kind") \in {KindDocument, KindText, None}
    /\ Has(FirstContent, "fields")
    /\ IsDict(Item(FirstContent, "fields"))

\* The mapping-valued entries of that fields map, in the map's order.
MappingEntries == SelectSeq(Item(FirstContent, "fields").v, LAMBDA kv : IsDict(kv[2]))

\* The keys of a value at any depth.
RECURSIVE KeysDeep(_)
KeysDeep(x) ==
    CASE x.t = "dict" ->
            {x.v[i][1] : i \in 1..Len(x.v)}
                \cup UNION {KeysDeep(x.v[i][2]) : i \in 1..Len(x.v)}
      [] x.t = "list" -> UNION {KeysDeep(x.v[i]) : i \in 1..Len(x.v)}
      [] OTHER -> {}

CarriesEvidence(field_obj) ==
    KeysDeep(field_obj) \cap {"source", "sources", "evidence"} # {}

RECURSIVE MappingsIn(_)
RECURSIVE MappingsInEach(_)
MappingsInEach(xs) ==
    IF xs = <<>> THEN <<>> ELSE MappingsIn(Head(xs)) \o MappingsInEach(Tail(xs))
MappingsIn(x) ==
    CASE x.t = "dict" -> <<x>> \o MappingsInEach(Values(x))
      [] x.t = "list" -> MappingsInEach(x.v)
      [] OTHER -> <<>>

\* The content entries of the argument: result.contents, else contents.
ArgContents ==
    IF /\ IsDict(Get(arg, "result"))
       /\ Get(Get(arg, "result"), "contents").t = "list"
       /\ Get(Get(arg, "result"), "contents").v # <<>>
    THEN Get(Get(arg, "result"), "contents").v
    ELSE IF Get(arg, "contents").t = "list" THEN Get(arg, "contents").v
    ELSE <<>>

\* The places of the content entries whose kind is document, text or absent.
DocumentLikeAt ==
    { i \in 1..Len(ArgContents) :
        /\ IsDict(ArgContents[i])
        /\ \/ ~Has(ArgContents[i], "kind")
           \/ Item(ArgContents[i], "kind") \in {KindDocument, KindText} }

\* The mappings at the known paths of a content entry, in priority order.
KnownPathMaps(c) ==
    LET at(d, k) == IF IsDict(Get(d, k)) THEN <<Item(d, k)>> ELSE <<>>
        inside(k) == IF IsDict(Get(c, k)) THEN at(Item(c, k), "fields") ELSE <<>>
    IN  at(c, "fields") \o at(c, "extractedFields") \o at(c, "output")
            \o at(c, "data") \o inside("extraction") \o inside("result")

\* A mapping that contains one of the marker keys.
HasMarker(v) ==
    /\ IsDict(v)
    /\ \/ Has(v, "value") \/ Has(v, "valueString")
       \/ Has(v, "source") \/ Has(v, "sources")

\* The first mapping of the argument, in traversal order, whose values are all
\* mappings containing a marker key; None when there is none.
RecursiveChoice ==
    LET ms == MappingsIn(arg)
        ok == { i \in 1..Len(ms) :
                    /\ ms[i].v # <<>>
                    /\ \A j \in 1..Len(ms[i].v) : HasMarker(ms[i].v[j][2]) }
    IN  IF ok = {} THEN None ELSE ms[SetMin(ok)]

\* The fields map of the argument: the first known path under the first
\* document-like entry, else the recursive choice.
ChosenFieldsMap ==
    IF DocumentLikeAt # {} /\ KnownPathMaps(ArgContents[SetMin(DocumentLikeAt)]) # <<>>
    THEN KnownPathMaps(ArgContents[SetMin(DocumentLikeAt)])[1]
    ELSE RecursiveChoice

\* The names of the mapping-valued entries of a fields map, in its order.
FieldNamesOf(m) ==
    IF m = None THEN <<>>
    ELSE LET es == SelectSeq(m.v, LAMBDA kv : IsDict(kv[2]))
         IN  [i \in 1..Len(es) |-> es[i][1]]

\* C13: the fields come from the fields map found at the first matching known
\* path (fields, extractedFields, output, data, then fields of an extraction
\* or result sub-object) under the first content entry whose kind is
\* document, text or absent; only when no path matches, from the first
\* mapping in traversal order whose values are all mappings containing a
\* marker key; and there are no fields when there is no such mapping either.
C13_FieldsMapChoice ==
    (phase = "done" /\ ~IsRaise(ret)) =>
        [i \in 1..Len(ret.v) |-> ret.v[i].v.name] = FieldNamesOf(ChosenFieldsMap)

\* C14: every region of every field the extractor returns has a page number
\* that is a positive integer (1 or more), whether the region came from a
\* source string or from a source mapping.
C14_PageNumberPositive ==
    (phase = "done" /\ ~IsRaise(ret)) =>
        \A i \in 1..Len(ret.v) :
            \A j \in 1..Len(ret.v[i].v.regions.v) :
                ret.v[i].v.regions.v[j].v.pageNumber >= 1

(***************************************************************************)
(* SpecClassifier: parse_classifier_output applied to one classification    *)
(* result: one or two candidate mappings placed in a structure of mappings  *)
(* and sequences, up to MaxDepth levels down.                               *)
(***************************************************************************)
Invoices == Str(<<"I", "n", "v", "o", "i", "c", "e", "s">>)
Loan     == Str(<<"L", "o", "a", "n">>)
Bank     == Str(<<"B", "a", "n", "k">>)

Candidates ==
    { Dict(<< <<"category", Invoices>>, <<"confidence", Num(92)>> >>),
      Dict(<< <<"label", Loan>>, <<"score", Num(50)>> >>),
      Dict(<< <<"category", N(5)>>, <<"label", Bank>>, <<"probability", Num(30)>> >>),
      Dict(<< <<"category", N(5)>>, <<"confidence", Num(80)>> >>),
      Dict(<< <<"other", N(1)>> >>),
      Dict(<< <<"label", Loan>>, <<"category", Invoices>> >>),
      Dict(<< <<"category", Invoices>>, <<"confidence", N(0)>>, <<"score", Num(50)>> >>),
      Dict(<< <<"category", Bank>>, <<"confidence", N(0)>> >>),
      Dict(<< <<"category", Bank>>, <<"probability", N(0)>> >>),
      Dict(<< <<"category", Invoices>>, <<"confidence", Str(<<"h", "i">>)>>,
              <<"score", Num(50)>> >>),
      Dict(<< <<"label", Loan>>, <<"confidence", Str(<<"0", ".", "7">>)>> >>),
      Dict(<< <<"label", Loan>>, <<"score", List(<<Num(50)>>)>> >>),
      Dict(<< <<"category", Str(<<>>)>>, <<"confidence", N(1)>> >>) }

\* x under d levels of mappings.
RECURSIVE Nest(_, _)
Nest(x, d) == IF d = 0 THEN x ELSE Dict(<< <<"a", Nest(x, d - 1)>> >>)

ClassifierResults ==
    { Nest(m, d) : m \in Candidates, d \in 0..MaxDepth }
        \cup { Dict(<< <<"a", Nest(m1, d)>>, <<"b", m2>> >>) :
                m1 \in Candidates, m2 \in Candidates, d \in 0..MaxDepth }
        \cup { Dict(<< <<"n", N(1)>>, <<"r", List(<< List(<<m1>>), Dict(<< <<"c", m2>> >>) >>)>> >>) :
                m1 \in Candidates, m2 \in Candidates }

InitClassifier ==
    /\ phase = "ready"
    /\ NoSession
    /\ images = <<>>
    /\ ret = None
    /\ given = NoShape
    /\ arg \in ClassifierResults

ClassifierCall ==
    /\ phase = "ready"
    /\ ret' = parse_classifier_output(arg)
    /\ phase' = "done"
    /\ UNCHANGED <<given, arg, images, session_state, run, before, viewer, prov>>

NextClassifier == ClassifierCall

SpecClassifier == InitClassifier /\ [][NextClassifier]_vars

HasString(m, k) == Has(m, k) /\ Item(m, k).t = "str"
Labelled(m) == HasString(m, "category") \/ HasString(m, "label")
LabelOf(m) == IF HasString(m, "category") THEN Item(m, "category") ELSE Item(m, "label")

ArgMappings == MappingsIn(arg)
LabelledAt == {i \in 1..Len(ArgMappings) : Labelled(ArgMappings[i])}
\* The first mapping with a string category (or, failing that, label).
Matched == ArgMappings[SetMin(LabelledAt)]

ConfidenceKeys == <<"confidence", "score", "probability">>

PresentConfidence == {i \in 1..3 : Has(Matched, ConfidenceKeys[i])}

\* C7: the confidence is the value of the first key present among confidence,
\* score, probability of the matched mapping (a present confidence of 0 comes
\* back as 0.0), coerced to a float; a value that does not coerce gives None,
\* nothing is raised and the label still comes back.
C7_FirstPresentConfidence ==
    (phase = "done" /\ LabelledAt # {}) =>
        /\ ret.t = "tuple"
        /\ ret.v[1] = LabelOf(Matched)
        /\ PresentConfidence = {} => ret.v[2] = None
        /\ PresentConfidence # {} =>
            LET c == Item(Matched, ConfidenceKeys[SetMin(PresentConfidence)])
            IN  ret.v[2] = IF FloatError(c) = "" THEN Num(FloatValue(c)) ELSE None

(***************************************************************************)
(* SpecDraw: draw_regions_on_page applied to one page image, a list of      *)
(* regions and the page dimensions (a number, 0 or None each).              *)
(***************************************************************************)
ImageSizes == { <<400, 400>>, <<400, 300>> }
PageDims   == { None, N(0), N(200), N(100) }
DrawBoxes  == { <<0, 0, 10000, 10000>>, <<1000, 2000, 3000, 4500>>, <<50, 50, 150, 250>> }
DrawRegions ==
    UNION { [1..n -> {Region(None, 1, None, b) : b \in DrawBoxes}] : n \in 0..MaxItems }

InitDraw ==
    /\ phase = "ready"
    /\ NoSession
    /\ ret = None
    /\ given = NoShape
    /\ \E size \in ImageSizes : images = << [size |-> size, rects |-> <<>>] >>
    /\ \E rs \in DrawRegions, pw \in PageDims, ph \in PageDims :
            arg = [page_img |-> 1, regions |-> rs,
                   page_width_doc |-> pw, page_height_doc |-> ph]

DrawCall ==
    /\ phase = "ready"
    /\ LET r == draw_regions_on_page(images, arg.page_img, arg.regions,
                                     arg.page_width_doc, arg.page_height_doc)
       IN  /\ images' = r.heap
           /\ ret' = [t |-> "image", v |-> r.img]
    /\ phase' = "done"
    /\ UNCHANGED <<given, arg, session_state, run, before, viewer, prov>>

NextDraw == DrawCall

SpecDraw == InitDraw /\ [][NextDraw]_vars

\* The quotient q equals x * (pixels / page_dim), x and page_dim in hundredths.
IsScaled(q, x, pixels, page_dim) == q.n * page_dim = x * pixels * q.d

\* The quotient q equals x (in hundredths): scale factor 1.
IsUnscaled(q, x) == q.n * 100 = x * q.d

\* Coordinate c of drawn rectangle q is bbox coordinate c scaled by the image
\* dimension over the page dimension, or left as it is with no page dimension.
CoordProjected(q, bbox, c, pixels, page_dim) ==
    /\ page_dim = None => IsUnscaled(q[c], bbox[c])
    /\ (page_dim # None /\ page_dim.v # 0) => IsScaled(q[c], bbox[c], pixels, page_dim.v)

\* C9: each region bbox (x0,y0,x1,y1) is drawn as (x0*sx, y0*sy, x1*sx, y1*sy)
\* with sx = image width / page width and sy = image height / page height,
\* each 1 when its page dimension is unavailable; bbox (0,0,100,100) on a
\* 200x200 page and a 400x400 image becomes (0,0,200,200); the rectangles go
\* on a new image and the image passed in is left as it was.
C9_ProjectionScalesIndependently ==
    (phase = "done") =>
        LET in  == images[arg.page_img]
            out == images[ret.v]
        IN  /\ ret.v # arg.page_img
            /\ in.rects = <<>>
            /\ out.size = in.size
            /\ Len(out.rects) = Len(arg.regions)
            /\ \A i \in 1..Len(out.rects) :
                LET q == out.rects[i]
                    b == arg.regions[i].v.bbox
                IN  /\ CoordProjected(q, b, 1, in.size[1], arg.page_width_doc)
                    /\ CoordProjected(q, b, 3, in.size[1], arg.page_width_doc)
                    /\ CoordProjected(q, b, 2, in.size[2], arg.page_height_doc)
                    /\ CoordProjected(q, b, 4, in.size[2], arg.page_height_doc)
                    /\ ( /\ b = <<0, 0, 10000, 10000>> /\ in.size = <<400, 400>>
                         /\ arg.page_width_doc = N(200) /\ arg.page_height_doc = N(200) )
                        => /\ q[1].n = 0 /\ q[2].n = 0
                           /\ q[3].n = 200 * q[3].d /\ q[4].n = 200 * q[4].d

\* Reached: on a 400x300 image of a page 200 wide with no known height, a
\* bbox with x1 = 30 and y1 = 45 was drawn with x1 = 60 and y1 = 45 on a new
\* image.
C9_Witness ==
    /\ phase = "done"
    /\ images[arg.page_img].size = <<400, 300>>
    /\ arg.page_width_doc = N(200) /\ arg.page_height_doc = None
    /\ ret.v # arg.page_img
    /\ \E i \in 1..Len(images[ret.v].rects) :
            /\ arg.regions[i].v.bbox = <<1000, 2000, 3000, 4500>>
            /\ images[ret.v].rects[i][3].n = 60 * images[ret.v].rects[i][3].d
            /\ images[ret.v].rects[i][4].n = 45 * images[ret.v].rects[i][4].d

(***************************************************************************)
(* SpecSource: _normalize_regions_from_source applied to one source          *)
(* mapping: a page number under one of the three keys or none, polygon      *)
(* and/or box at the top level, and a list of up to MaxItems region          *)
(* elements, each with or without its own page number and geometry.          *)
(***************************************************************************)
ShortPoly == List(<<N(0), N(0), N(2), N(1)>>)

\* The page item of a source mapping; pageIndex may be 0.
TopPageItems ==
    { <<>>,
      << <<"pageNumber", N(2)>> >>,
      << <<"page", N(2)>> >>,
      << <<"pageIndex", N(2)>> >>,
      << <<"pageIndex", N(0)>> >> }

\* The page item of a region element.
ElemPageItems ==
    { <<>>, << <<"pageNumber", N(1)>> >>, << <<"page", N(1)>> >> }

GeometryItems ==
    { <<>>,
      << <<"polygon", Poly(RectA)>> >>,
      << <<"points", Poly(RectB)>> >>,
      << <<"boundingBox", BoxA>> >>,
      << <<"boundingBox", BoxA>>, <<"polygon", Poly(RectB)>> >>,
      << <<"polygon", ShortPoly>>, <<"boundingBox", BoxA>> >> }

RegionElems == { Dict(p \o g) : p \in ElemPageItems, g \in GeometryItems }

RegionElemLists == UNION { [1..n -> RegionElems] : n \in 1..MaxItems }

SourceMappings ==
    { Dict(p \o g) : p \in TopPageItems, g \in GeometryItems }
        \cup { Dict(p \o << <<k, List(brs)>> >>) :
                p \in TopPageItems, k \in {"boundingRegions", "regions"},
                brs \in RegionElemLists }

InitSource ==
    /\ phase = "ready"
    /\ NoSession
    /\ images = <<>>
    /\ ret = None
    /\ given = NoShape
    /\ arg \in SourceMappings

SourceCall ==
    /\ phase = "ready"
    /\ ret' = _normalize_regions_from_source(arg)
    /\ phase' = "done"
    /\ UNCHANGED <<given, arg, images, session_state, run, before, viewer, prov>>

NextSource == SourceCall

SpecSource == InitSource /\ [][NextSource]_vars

\* The page number a mapping gives: the value of its first page key.
PageOf(d, keys) ==
    IF \E i \in 1..Len(keys) : Has(d, keys[i])
    THEN Item(d, keys[CHOOSE i \in 1..Len(keys) :
                        Has(d, keys[i]) /\ \A j \in 1..(i - 1) : ~Has(d, keys[j])])
    ELSE None

\* The polygon of a mapping: a list of 8 or more numbers under polygon/points.
PolygonOf(d) ==
    IF Has(d, "polygon") /\ Len(Item(d, "polygon").v) >= 8 THEN Item(d, "polygon")
    ELSE IF Has(d, "points") /\ Len(Item(d, "points").v) >= 8 THEN Item(d, "points")
    ELSE None

\* The region element list of the argument, <<>> when it has none.
ElemsOfArg ==
    IF Has(arg, "boundingRegions") THEN Item(arg, "boundingRegions").v
    ELSE IF Has(arg, "regions") THEN Item(arg, "regions").v
    ELSE <<>>

\* The regions the data of d, on page `page`, stands for: none without a page
\* number, the polygon's when there is a polygon, else the box's.
RegionsFor(d, page) ==
    IF page = None THEN <<>>
    ELSE IF PolygonOf(d) # None
    THEN << Region(None, page.v \div 100, PolygonOf(d),
                   _coerce_polygon_to_bbox(Nums(PolygonOf(d)))) >>
    ELSE IF Has(d, "boundingBox")
    THEN << Region(None, page.v \div 100, None, Nums(Item(d, "boundingBox"))) >>
    ELSE <<>>

ArgPage == PageOf(arg, <<"pageNumber", "page", "pageIndex">>)

ElemRegions(br) ==
    RegionsFor(br, IF PageOf(br, <<"pageNumber", "page">>) # None
                   THEN PageOf(br, <<"pageNumber", "page">>) ELSE ArgPage)

RECURSIVE Flatten(_)
Flatten(seqs) == IF seqs = <<>> THEN <<>> ELSE Head(seqs) \o Flatten(Tail(seqs))

ExpectedRegions ==
    IF ElemsOfArg # <<>>
    THEN Flatten([i \in 1..Len(ElemsOfArg) |-> ElemRegions(ElemsOfArg[i])])
    ELSE RegionsFor(arg, ArgPage)

\* C11: the region extractor never raises; it emits one region for each piece
\* of polygon or box data that has a page number (its own or the enclosing
\* source's), from the polygon when both are there, and none for data with no
\* page number anywhere in the chain.  (A pageIndex of 0 is left open here.)
C11_RegionNeedsPage ==
    (phase = "done") =>
        /\ ~IsRaise(ret)
        /\ ArgPage # N(0) => ret = List(ExpectedRegions)

(***************************************************************************)
(* SpecGather: _gather_sources_recursive applied to one tree: a mapping of  *)
(* one or two items (or a sequence of such mappings) whose keys are the      *)
(* three evidence keys or another key and whose values are strings,          *)
(* mappings or sequences.                                                    *)
(***************************************************************************)
EvP == Str(<<"p">>)
EvQ == Str(<<"q">>)
EvR == Str(<<"r">>)

GatherKeys == {"source", "sources", "evidence", "a"}

GatherInner ==
    { Dict(<< <<"evidence", EvR>>, <<"source", EvP>> >>),
      Dict(<< <<"a", EvR>> >>),
      List(<< Dict(<< <<"source", EvR>> >>), Dict(<< <<"sources", EvQ>> >>) >>) }

GatherValues == {EvP, EvQ} \cup GatherInner

GatherMappings ==
    { Dict(<< <<k, v>> >>) : k \in GatherKeys, v \in GatherValues }
        \cup { Dict(<< <<ks[1], v1>>, <<ks[2], v2>> >>) :
                ks \in {p \in GatherKeys \X GatherKeys : p[1] # p[2]},
                v1 \in GatherValues, v2 \in GatherValues }

GatherTrees ==
    GatherMappings
        \cup { List(<<m, Dict(<< <<"sources", EvQ>> >>)>>) : m \in GatherInner }
        \cup { List(<<>>), EvP }

InitGather ==
    /\ phase = "ready"
    /\ NoSession
    /\ images = <<>>
    /\ ret = None
    /\ given = NoShape
    /\ arg \in GatherTrees

GatherCall ==
    /\ phase = "ready"
    /\ ret' = List(_gather_sources_recursive(arg))
    /\ phase' = "done"
    /\ UNCHANGED <<given, arg, images, session_state, run, before, viewer, prov>>

NextGather == GatherCall

SpecGather == InitGather /\ [][NextGather]_vars

IsEvidenceKey(k) == k \in {"source", "sources", "evidence"}

\* The values a mapping holds under the evidence keys, in its insertion order.
OwnEvidence(m) ==
    LET own == SelectSeq(m.v, LAMBDA kv : IsEvidenceKey(kv[1]))
    IN  [i \in 1..Len(own) |-> own[i][2]]

\* The evidence values of every mapping of the tree.
EvidenceOfAll(ms) == Flatten([i \in 1..Len(ms) |-> OwnEvidence(ms[i])])

\* The number of times x occurs in xs.
Occurrences(xs, x) == Cardinality({i \in 1..Len(xs) : xs[i] = x})

RECURSIVE IsSubsequence(_, _)
IsSubsequence(xs, ys) ==
    IF xs = <<>> THEN TRUE
    ELSE IF ys = <<>> THEN FALSE
    ELSE IF Head(xs) = Head(ys) THEN IsSubsequence(Tail(xs), Tail(ys))
    ELSE IsSubsequence(xs, Tail(ys))

\* The gatherer returns every value held under source, sources or evidence at
\* any depth, each as often as it is held.
GatherIsComplete ==
    (phase = "done") =>
        \A x \in {ret.v[i] : i \in 1..Len(ret.v)}
                \cup {EvidenceOfAll(MappingsIn(arg))[i] :
                        i \in 1..Len(EvidenceOfAll(MappingsIn(arg)))} :
            Occurrences(ret.v, x) = Occurrences(EvidenceOfAll(MappingsIn(arg)), x)

\* C12: the gatherer returns every value held under source, sources or
\* evidence at any depth, and the values come in traversal order: those of one
\* mapping in the mapping's key insertion order, those of a sequence in
\* element order.
C12_GatherInTraversalOrder ==
    (phase = "done") =>
        /\ GatherIsComplete
        /\ \A i \in 1..Len(MappingsIn(arg)) :
                IsSubsequence(OwnEvidence(MappingsIn(arg)[i]), ret.v)
        /\ arg.t = "list" =>
                ret.v = Flatten([i \in 1..Len(arg.v) |->
                                    _gather_sources_recursive(arg.v[i])])

(***************************************************************************)
(* Spec: the session.  The user clicks Run in live or offline mode, with a   *)
(* file, paths and a zoom from the sets below; the remote service answers    *)
(* each call with one of the documents below or with an error.               *)
(***************************************************************************)
PdfA   == Bytes([id |-> "A", len |-> 20971520, pdf |-> TRUE,
                 pages |-> << <<200, 200>> >>])
PdfB   == Bytes([id |-> "B", len |-> 1000, pdf |-> TRUE,
                 pages |-> << <<200, 200>>, <<200, 100>> >>])
PdfBig == Bytes([id |-> "C", len |-> 20971521, pdf |-> TRUE,
                 pages |-> << <<200, 200>> >>])
NotPdf == Bytes([id |-> "D", len |-> 10, pdf |-> FALSE, pages |-> <<>>])

Uploads == {PdfA, PdfB, PdfBig, NotPdf}

\* Two positions of the zoom slider (1.0 to 4.0 in steps of 0.5).
Zooms == {Num(150), Num(200)}

UsageBlock ==
    Dict(<< <<"tokens", Dict(<< <<"gpt-input", N(10)>>, <<"gpt-output", Num(550)>>,
                                <<"contextualization", N(3)>> >>)>> >>)

ResultOf(fields_map, more) ==
    Dict(<< <<"result", Dict(<< <<"contents",
            List(<< Content(KindDocument, << <<"fields", fields_map>> >>) >>)>> >>
                                \o more)>> >>)

\* One field on page 1, with a usage block.
ResultFoo ==
    ResultOf(Dict(<< <<"Foo", Dict(<< <<"valueString", Bar>>,
                                      <<"source", SrcStr("D", 1, RectA)>> >>)>> >>),
             << <<"usage", UsageBlock>> >>)

\* Two fields, the second one on page 2.
ResultTotal ==
    ResultOf(Dict(<< <<"Name", Dict(<< <<"valueString", Bar>> >>)>>,
                     <<"Total", Dict(<< <<"valueNumber", N(7)>>,
                                        <<"source", SrcStr("D", 2, RectB)>> >>)>> >>),
             <<>>)

\* A fields map without entries, and a document without a fields map.
ResultEmpty  == ResultOf(Dict(<<>>), <<>>)
ResultStatus == Dict(<< <<"status", Str(<<"o">>)>> >>)

\* A field whose evidence has a polygon and no page number.
ResultNoPage ==
    ResultOf(Dict(<< <<"Foo", Dict(<< <<"valueString", Bar>>,
                                      <<"evidence", NoPageRegions>> >>)>> >>), <<>>)

\* What poll_result gives for an extraction, or the error of the service.
AnalyzeResponses ==
    {ResultFoo, ResultTotal, ResultEmpty, ResultStatus, ResultNoPage, Raise("HTTPError")}

\* What poll_result gives for a classification, or the error of the service.
ClassifyResponses ==
    { Nest(Dict(<< <<"category", label_a>>, <<"confidence", Num(92)>> >>), 1),
      Dict(<< <<"result", List(<< Dict(<< <<"label", label_b>> >>) >>)>> >>),
      Dict(<< <<"category", Loan>>, <<"score", Num(50)>> >>),
      ResultStatus,
      Raise("HTTPError") }

\* The files of the offline mode: what each path holds.
JsonFiles ==
    ("test_output/sample_result.json" :> ResultFoo)
        @@ ("test_output/total.json" :> ResultTotal)
        @@ ("test_output/empty.json" :> ResultEmpty)
        @@ ("test_output/broken.json" :> Raise("JSONDecodeError"))
        @@ ("test_output/none.json" :> None)

PdfFiles ==
    ("data/sample.pdf" :> PdfA) @@ ("data/two.pdf" :> PdfB)
        @@ ("data/none.pdf" :> None)

Init ==
    /\ phase = "session"
    /\ given = NoShape
    /\ arg = None
    /\ ret = None
    /\ images = <<>>
    /\ session_state = _ensure_session_state
    /\ run = NoRun
    /\ before = _ensure_session_state
    /\ viewer = NoViewer
    /\ prov = NoProvision

\* Lines 463-490: Run is clicked in live mode.
RunLive ==
    /\ run.pc = "idle"
    /\ \E uploaded \in Uploads \cup {None}, zoom \in Zooms :
            run' = live_run_start(session_state, uploaded, zoom)
    /\ before' = session_state
    /\ UNCHANGED <<phase, given, arg, ret, images, session_state, viewer, prov>>

\* Lines 491-506: the classifier is called and polled.
Classify ==
    /\ run.pc = "classify"
    /\ \E classify_result \in ClassifyResponses :
            run' = IF IsRaise(classify_result)
                   THEN Stopped([run EXCEPT !.calls = Append(@, "classify")], "exception")
                   ELSE [run EXCEPT !.calls = Append(@, "classify"),
                                    !.classify_result = classify_result,
                                    !.pc = "map"]
    /\ UNCHANGED <<phase, given, arg, ret, images, session_state, before, viewer, prov>>

\* Lines 508-516: the label is read and mapped to an analyzer.
MapLabel ==
    /\ run.pc = "map"
    /\ run' = map_label(run, parse_classifier_output(run.classify_result))
    /\ UNCHANGED <<phase, given, arg, ret, images, session_state, before, viewer, prov>>

\* Lines 518-529: the analyzer is called and polled.
Extract ==
    /\ run.pc = "extract"
    /\ \E analyze_result \in AnalyzeResponses :
            run' = IF IsRaise(analyze_result)
                   THEN Stopped([run EXCEPT !.calls = Append(@, "extract")], "exception")
                   ELSE [run EXCEPT !.calls = Append(@, "extract"),
                                    !.analyze_result = analyze_result,
                                    !.pc = "fields"]
    /\ UNCHANGED <<phase, given, arg, ret, images, session_state, before, viewer, prov>>

\* Lines 531-547 and 567-580 for the field list computed.
StoreFields(r, fields) ==
    /\ session_state' = session_after_fields(session_state, r, fields)
    /\ run' = run_after_fields(r, fields)

\* Lines 531-547: the fields are extracted and the session is written.
Normalize ==
    /\ run.pc = "fields"
    /\ StoreFields(run, extract_fields_with_locations(run.analyze_result))
    /\ UNCHANGED <<phase, given, arg, ret, images, before, viewer, prov>>

\* Lines 555-580: Run is clicked in offline mode.
RunOffline ==
    /\ run.pc = "idle"
    /\ \E json_path \in DOMAIN JsonFiles, pdf_path \in DOMAIN PdfFiles, zoom \in Zooms :
            LET r == offline_run_start(json_path, JsonFiles[json_path],
                                       PdfFiles[pdf_path], zoom)
            IN  IF r.pc = "idle"
                THEN run' = r /\ UNCHANGED session_state
                ELSE StoreFields(r, extract_fields_with_locations(r.analyze_result))
    /\ before' = session_state
    /\ UNCHANGED <<phase, given, arg, ret, images, viewer, prov>>

\* Lines 549-552 and 582-585 for the pages rendered, then line 587.
StorePages(key, pages) ==
    IF IsRaise(pages)
    THEN /\ run' = Stopped(run, "exception")
         /\ UNCHANGED <<session_state, images>>
    ELSE /\ images' = pages.v
         /\ session_state' =
                [session_state EXCEPT
                    !.page_images = List([k \in 1..Len(pages.v) |->
                                            [t |-> "image", v |-> k]]),
                    !.render_cache_key = key]
         /\ run' = Stopped(run, "Document loaded.")

RenderPages(pdf_bytes) ==
    IF session_state.render_cache_key # render_key(pdf_bytes, run.zoom)
    THEN StorePages(render_key(pdf_bytes, run.zoom),
                    render_pdf_pages(pdf_bytes, run.zoom))
    ELSE /\ run' = Stopped(run, "Document loaded.")
         /\ UNCHANGED <<session_state, images>>

\* Lines 549-552 (live: the bytes kept in the session) and 582-585 (offline:
\* the bytes just read), then line 587.
Render ==
    /\ run.pc = "render"
    /\ RenderPages(IF run.mode = "live" THEN session_state.pdf_bytes ELSE run.pdf_bytes)
    /\ UNCHANGED <<phase, given, arg, ret, before, viewer, prov>>

Next ==
    \/ RunLive
    \/ Classify
    \/ MapLabel
    \/ Extract
    \/ Normalize
    \/ RunOffline
    \/ Render

Spec == Init /\ [][Next]_vars

\* C10: when an analysis yields zero extracted fields, in live or offline
\* mode, the Run ends as a failure ("No fields found") and every cached value
\* of the session (analysis_cache_key, analysis_result, analysis_fields,
\* analysis_meta, pdf_bytes, render_cache_key, page_images) is what it was
\* when the Run began.
C10_ZeroFieldsLeavesSession ==
    (run.fields = List(<<>>)) =>
        /\ run.pc = "idle"
        /\ run.outcome = "No fields found."
        /\ session_state = before

\* Reached: after a document had been loaded, a live Run on another file got
\* an analysis without fields and stopped; the loaded document is still the
\* one in the session.
C10_Witness ==
    /\ run.mode = "live"
    /\ run.fields = List(<<>>)
    /\ run.outcome = "No fields found."
    /\ run.calls = <<"classify", "extract">>
    /\ Truthy(before.analysis_fields)
    /\ Truthy(before.page_images)
    /\ before.pdf_bytes # run.pdf_bytes
    /\ session_state = before

\* The analysis slot of the session: the key and what was stored with it.
AnalysisOf(session) ==
    <<session.analysis_cache_key, session.analysis_result, session.analysis_fields,
      session.analysis_meta, session.pdf_bytes>>

\* The current (or last) Run is a live one that passed the checks of lines
\* 465-485 and computed its key.
LiveRun == run.mode = "live" /\ run.analysis_key # None

CacheHit == LiveRun /\ before.analysis_cache_key = run.analysis_key

CacheMiss == LiveRun /\ before.analysis_cache_key # run.analysis_key

\* C15: single-slot memoization in live mode.  A Run whose key equals the
\* cached analysis_cache_key makes no classifier call and no extraction call
\* and leaves the cached analysis as it was.  A Run whose key differs goes
\* through the pipeline; once it has its fields the slot holds this Run's key,
\* result and fields, and until then (or if it fails) the slot is as it was.
\* The slot therefore never holds a result other than the one computed for
\* its key.
C15_SingleSlotMemo ==
    /\ CacheHit =>
            /\ run.calls = <<>>
            /\ AnalysisOf(session_state) = AnalysisOf(before)
    /\ CacheMiss =>
            /\ run.pc = "classify" \/ run.calls # <<>>
            /\ IF Truthy(run.fields)
               THEN /\ run.calls = <<"classify", "extract">>
                    /\ session_state.analysis_cache_key = run.analysis_key
                    /\ session_state.analysis_result = run.analyze_result
                    /\ session_state.analysis_fields = run.fields
                    /\ session_state.pdf_bytes = run.pdf_bytes
               ELSE AnalysisOf(session_state) = AnalysisOf(before)
    /\ (session_state.analysis_cache_key = None) <=> (session_state.analysis_result = None)

\* Reached: a document was loaded by a live Run, and a second live Run on the
\* same file at another zoom ended with "Document loaded." having made no
\* remote call; only the pages were rendered again.
C15_Witness ==
    /\ CacheHit
    /\ run.outcome = "Document loaded."
    /\ run.calls = <<>>
    /\ Truthy(session_state.analysis_fields)
    /\ AnalysisOf(session_state) = AnalysisOf(before)
    /\ session_state.render_cache_key # before.render_cache_key

\* The remote calls made so far are a prefix of classify, extract.
CallsInOrder ==
    run.calls \in {<<>>, <<"classify">>, <<"classify", "extract">>}

\* C16: on a live Run that misses the cache the steps are classify, map the
\* label, extract, render, each at most once and one after the other.  The
\* extraction starts only when the classification returned a label that maps
\* to an analyzer, the rendering only when the extraction returned at least
\* one field, and after a failure of the remote service the Run has ended
\* with no later step: no further call and the session as it was.
C16_PipelineInOrder ==
    CacheMiss =>
        /\ CallsInOrder
        /\ run.pc = "classify" => run.calls = <<>>
        /\ run.pc = "map" =>
                run.calls = <<"classify">> /\ run.classify_result # None
        /\ (run.pc = "extract" \/ Len(run.calls) = 2) =>
                /\ Truthy(run.doc_label)
                /\ run.doc_label = parse_classifier_output(run.classify_result).v[1]
                /\ Truthy(run.analyzer_id)
                /\ run.analyzer_id = Get(analyzer_map, run.doc_label.v)
        /\ run.pc = "extract" => run.calls = <<"classify">>
        /\ run.pc = "fields" =>
                run.calls = <<"classify", "extract">> /\ run.analyze_result # None
        /\ (run.pc = "render" \/ session_state.render_cache_key # before.render_cache_key
                \/ run.outcome = "Document loaded.") =>
                /\ run.calls = <<"classify", "extract">>
                /\ Truthy(run.fields)
                /\ run.fields = extract_fields_with_locations(run.analyze_result)
        /\ (run.outcome = "exception" /\ ~Truthy(run.fields)) =>
                /\ run.pc = "idle"
                /\ session_state = before

\* Reached: a live Run on a new file went through classification, mapping and
\* extraction and has rendered the pages of the new document.
C16_Witness ==
    /\ CacheMiss
    /\ run.calls = <<"classify", "extract">>
    /\ run.outcome = "Document loaded."
    /\ Truthy(before.analysis_fields)
    /\ session_state.render_cache_key # before.render_cache_key
    /\ session_state.analysis_cache_key = run.analysis_key

\* The zooms whose render key is the one recorded in the session.
RecordedZooms(session) ==
    {z \in Zooms : session.render_cache_key = render_key(session.pdf_bytes, z)}

\* The page images of the session are the rendering of its pdf_bytes at the
\* zoom recorded in render_cache_key.
PagesOfSessionPdf(session) ==
    \E z \in RecordedZooms(session) :
        /\ images = render_pdf_pages(session.pdf_bytes, z).v
        /\ session.page_images.v = [k \in 1..Len(images) |-> [t |-> "image", v |-> k]]

\* The analysis of the session was made for its pdf_bytes: its key is the
\* live key of those bytes, or the key of an offline file holding the result.
AnalysisOfSessionPdf(session) ==
    \/ session.analysis_cache_key = live_analysis_key(session.pdf_bytes)
    \/ \E p \in DOMAIN JsonFiles :
            /\ session.analysis_cache_key = offline_analysis_key(p)
            /\ session.analysis_result = JsonFiles[p]

\* C17: between Runs, whatever their outcome, the cached values describe one
\* document: analysis_fields is the normalization of analysis_result, the
\* analysis was made for pdf_bytes, and page_images, when there are any, is
\* the rendering of pdf_bytes at the zoom recorded in render_cache_key; so
\* the viewer never shows the fields of one document on the pages of another.
C17_SessionDescribesOneDocument ==
    (run.pc = "idle" /\ session_state.analysis_fields # None) =>
        /\ session_state.analysis_fields =
                extract_fields_with_locations(session_state.analysis_result)
        /\ AnalysisOfSessionPdf(session_state)
        /\ session_state.page_images # None => PagesOfSessionPdf(session_state)

(***************************************************************************)
(* SpecViewer: the session with the Document Viewer.  After a Run, and on   *)
(* every later script run (a field is selected, a page is entered), the     *)
(* script shows the selected field on a page of the loaded document.        *)
(***************************************************************************)
\* Lines 645-647: the page of the first region of the selected field, else 1.
default_page(selected_field) ==
    IF Truthy(selected_field.regions)
    THEN N(selected_field.regions.v[1].v.pageNumber)
    ELSE N(1)

\* Lines 648-649: the page number of the session, set from default_page when
\* the key is not there yet.
kept_page_num(v, selected_field) ==
    IF v.page_num = None THEN default_page(selected_field) ELSE v.page_num

\* Lines 651-658: st.number_input.  A `value` outside min_value..max_value is
\* refused with an exception; else the widget gives what the user entered,
\* `value` when nothing was entered.
number_input(min_value, max_value, value, entered) ==
    IF value.v < 100 * min_value THEN Raise("StreamlitValueBelowMinError")
    ELSE IF value.v > 100 * max_value THEN Raise("StreamlitValueAboveMaxError")
    ELSE IF entered = None THEN value
    ELSE entered

\* Lines 662: the regions of the selected field on the page shown.
page_regions(selected_field, page_num) ==
    SelectSeq(selected_field.regions.v, LAMBDA r : r.v.pageNumber = page_num)

\* Lines 659-670 for what the page selector gave: page_num is stored and the
\* page image is shown, with the regions of that page when there are any.
viewer_after_input(page_images, selected_field, value, picked) ==
    IF IsRaise(picked)
    THEN [page_num |-> value, value |-> value, max_value |-> Len(page_images),
          outcome |-> picked.v]
    ELSE [page_num |-> picked, value |-> value, max_value |-> Len(page_images),
          outcome |-> IF page_images[picked.v \div 100].t # "image" THEN "IndexError"
                      ELSE IF page_regions(selected_field, picked.v \div 100) # <<>>
                      THEN "overlay shown"
                      ELSE "page shown"]

\* Lines 589-670 (what they keep): the viewer for the field selected and the
\* page entered, None when no page was entered.
view(session, v, selected_idx, entered) ==
    viewer_after_input(
        session.page_images.v,
        session.analysis_fields.v[selected_idx + 1].v,
        kept_page_num(v, session.analysis_fields.v[selected_idx + 1].v),
        number_input(1, Len(session.page_images.v),
                     kept_page_num(v, session.analysis_fields.v[selected_idx + 1].v),
                     entered))

\* Lines 589-670: the script reaches the viewer, in the script run of a Run
\* that loaded a document or in a later one.
View ==
    /\ run.pc = "idle"
    /\ Truthy(session_state.analysis_fields)
    /\ Truthy(session_state.page_images)
    /\ \E selected_idx \in 0..(Len(session_state.analysis_fields.v) - 1),
          entered \in {None} \cup {N(k) : k \in 1..Len(session_state.page_images.v)} :
            viewer' = view(session_state, viewer, selected_idx, entered)
    /\ UNCHANGED <<phase, given, arg, ret, images, session_state, run, before, prov>>

\* The documents are loaded in offline mode (any JSON file with any PDF
\* file); the viewer does not read how a document came into the session.
NextViewer ==
    \/ RunOffline
    \/ Render
    \/ View

SpecViewer == Init /\ [][NextViewer]_vars

\* C18: after any sequence of document loads, field selections and page
\* changes, the page number kept in the session is within
\* 1..len(page_images) whenever it is passed to the page selector and used
\* to index page_images.
C18_PageNumWithinPages ==
    (viewer.value # None) =>
        /\ viewer.value \in {N(k) : k \in 1..viewer.max_value}
        /\ viewer.outcome \in {"page shown", "overlay shown"}
        /\ viewer.page_num \in {N(k) : k \in 1..viewer.max_value}

(***************************************************************************)
(* SpecProvision: prereq.py.  main creates the three analyzers and the      *)
(* classifier, each after an existence check; create_analyzer and           *)
(* create_classifier are also called on their own, with either value of     *)
(* skip_existing.  The service holds any set of the four ids at the start,  *)
(* answers an existence check with 200 or 404 according to what it holds,   *)
(* or with an error, and keeps what was created.                            *)
(***************************************************************************)
MaxRuns == 2

\* prereq.py lines 312-315: the calls of main, in order.
main_calls ==
    << [fn |-> "create_analyzer", id |-> ANALYZER_INVOICES_ID],
       [fn |-> "create_analyzer", id |-> ANALYZER_BANK_STATEMENTS_ID],
       [fn |-> "create_analyzer", id |-> ANALYZER_LOAN_ID],
       [fn |-> "create_classifier", id |-> CLASSIFIER_ID] >>

ResourceIds == {main_calls[i].id : i \in 1..Len(main_calls)}

\* What get_analyzer_detail_by_id can give for an id: the status of the
\* answer, or a failure of the connection.
ExistenceAnswers(exists, id) ==
    (IF id \in exists THEN {"200"} ELSE {"404"}) \cup {"500", "ConnectionError"}

\* prereq.py lines 44-51.
analyzer_exists(answer) ==
    IF answer = "200" THEN Bool(TRUE)
    ELSE IF answer = "ConnectionError" THEN Raise("ConnectionError")
    ELSE IF answer = "404" THEN Bool(FALSE)
    ELSE Raise("HTTPError")

\* An exception leaves the call, and main when main made the call.
call_raised(p, exception) ==
    [p EXCEPT !.pc = "idle", !.step = 0, !.outcome = exception]

\* The call returned: main goes on with its next call or returns (lines
\* 312-323); a call made on its own is over.
call_returned(p) ==
    IF p.step = 0 THEN [p EXCEPT !.pc = "idle", !.outcome = "returned"]
    ELSE IF p.step < Len(main_calls)
    THEN [p EXCEPT !.step = @ + 1, !.pc = "check",
                   !.fn = main_calls[p.step + 1].fn,
                   !.id = main_calls[p.step + 1].id]
    ELSE [p EXCEPT !.step = 0, !.pc = "idle", !.completed = @ + 1,
                   !.outcome = "main returned"]

\* Lines 60-64 and 81-85 with the return of lines 61-63 / 82-84 left out: an
\* existing resource is created again.
after_exists_CreateAnyway(p, found) ==
    IF IsRaise(found) THEN call_raised(p, found.v)
    ELSE IF Truthy(found) /\ ~p.skip_existing THEN call_raised(p, "RuntimeError")
    ELSE [p EXCEPT !.pc = "create"]

\* Lines 60-64 (create_analyzer) and 81-85 (create_classifier): what follows
\* the existence check.
after_exists(p, found) ==
    IF IsRaise(found) THEN call_raised(p, found.v)
    ELSE IF Truthy(found)
    THEN IF p.skip_existing THEN call_returned(p)
         ELSE call_raised(p, "RuntimeError")
    ELSE [p EXCEPT !.pc = "create"]

\* Lines 66-72 and 87-93: what follows begin_create_analyzer and poll_result.
\* `result` is "created", or the exception of one of the two; after
\* "TimeoutError" (of poll_result) the service may hold the resource.
after_create(p, result, held) ==
    IF result = "created"
    THEN call_returned([p EXCEPT !.exists = @ \cup {p.id}])
    ELSE call_raised([p EXCEPT !.exists = IF held THEN @ \cup {p.id} ELSE @], result)

InitProvision ==
    /\ phase = "provision"
    /\ given = NoShape
    /\ arg = None
    /\ ret = None
    /\ images = <<>>
    /\ session_state = _ensure_session_state
    /\ run = NoRun
    /\ before = _ensure_session_state
    /\ viewer = NoViewer
    /\ prov \in {[NoProvision EXCEPT !.exists = e] : e \in SUBSET ResourceIds}

\* Lines 302-312: main is run and makes its first call.
Main ==
    /\ prov.pc = "idle"
    /\ prov.runs < MaxRuns
    /\ prov' = [prov EXCEPT !.runs = @ + 1, !.since = prov.completed,
                            !.step = 1, !.pc = "check",
                            !.fn = main_calls[1].fn, !.id = main_calls[1].id,
                            !.skip_existing = TRUE,
                            !.requests = <<>>, !.outcome = ""]
    /\ UNCHANGED <<phase, given, arg, ret, images, session_state, run, before, viewer>>

\* Lines 54-59 and 75-80: create_analyzer or create_classifier is called on
\* its own.
CreateCall ==
    /\ prov.pc = "idle"
    /\ \E i \in 1..Len(main_calls), skip_existing \in BOOLEAN :
            prov' = [prov EXCEPT !.since = prov.completed,
                                 !.step = 0, !.pc = "check",
                                 !.fn = main_calls[i].fn, !.id = main_calls[i].id,
                                 !.skip_existing = skip_existing,
                                 !.requests = <<>>, !.outcome = ""]
    /\ UNCHANGED <<phase, given, arg, ret, images, session_state, run, before, viewer>>

\* Lines 60-64 and 81-85: the existence check and what follows it.
ExistsCheck ==
    /\ prov.pc = "check"
    /\ \E answer \in ExistenceAnswers(prov.exists, prov.id) :
            prov' = after_exists(
                        [prov EXCEPT !.requests = Append(@, <<"GET", prov.id, answer>>)],
                        analyzer_exists(answer))
    /\ UNCHANGED <<phase, given, arg, ret, images, session_state, run, before, viewer>>

\* Lines 66-72 and 87-93: the create request and the wait for its result.
Create ==
    /\ prov.pc = "create"
    /\ \E r \in {<<"created", TRUE>>, <<"HTTPError", FALSE>>,
                  <<"TimeoutError", FALSE>>, <<"TimeoutError", TRUE>>} :
            prov' = after_create(
                        [prov EXCEPT !.requests = Append(@, <<"PUT", prov.id, r[1]>>)],
                        r[1], r[2])
    /\ UNCHANGED <<phase, given, arg, ret, images, session_state, run, before, viewer>>

NextProvision ==
    \/ Main
    \/ CreateCall
    \/ ExistsCheck
    \/ Create

SpecProvision == InitProvision /\ [][NextProvision]_vars

\* The create requests among the requests sent.
CreateRequests ==
    {i \in 1..Len(prov.requests) : prov.requests[i][1] = "PUT"}

\* The last request is the one the call in hand ended with.
EndedWith(i) == i = Len(prov.requests) /\ prov.pc = "idle"

\* C19: provisioning is idempotent.  A create request for an id is sent only
\* right after an existence check for that id that answered 404.  After an
\* answer that the resource exists no create request follows: the call
\* returns silently with skip_existing and raises RuntimeError without.
\* After any other failure of the existence check the exception leaves the
\* call and no request follows.  Once main has returned, a later run of main
\* (or a later call) sends no create request.
C19_ProvisionIdempotent ==
    /\ \A i \in CreateRequests :
            /\ i > 1
            /\ prov.requests[i - 1] = <<"GET", prov.requests[i][2], "404">>
    /\ \A i \in 1..Len(prov.requests) :
            /\ (prov.requests[i][1] = "GET" /\ prov.requests[i][3] = "200") =>
                    /\ (i + 1) \notin CreateRequests
                    /\ ~prov.skip_existing =>
                            EndedWith(i) /\ prov.outcome = "RuntimeError"
                    /\ (prov.skip_existing /\ i = Len(prov.requests)) =>
                            \/ prov.pc = "check"
                            \/ prov.pc = "idle" /\ prov.outcome \in {"returned", "main returned"}
            /\ (prov.requests[i][1] = "GET" /\ prov.requests[i][3] \in {"500", "ConnectionError"}) =>
                    /\ EndedWith(i)
                    /\ prov.outcome \in {"HTTPError", "ConnectionError"}
    /\ prov.since >= 1 => CreateRequests = {}

\* Reached: main returned, was run again, sent four existence checks that
\* were all answered with 200, and returned.
C19_Witness ==
    /\ prov.since = 1
    /\ prov.completed = 2
    /\ prov.outcome = "main returned"
    /\ Len(prov.requests) = Len(main_calls)
    /\ \A i \in 1..Len(prov.requests) :
            prov.requests[i] = <<"GET", main_calls[i].id, "200">>

====
